---------------------------- MODULE Spec2Model ----------------------------
(***************************************************************************)
(* Model of the Blender asset pipeline of scripts/blender: the prop driver *)
(* generate_prop.py, the surface-texture driver                            *)
(* generate_surface_textures.py and the library modules lib/mesh_ops.py,   *)
(* lib/materials.py, lib/bake.py, lib/export.py and lib/conventions.py.    *)
(*                                                                         *)
(* The scripts are sequential.  A state is the position of the running     *)
(* script (pc) together with the host scene, the object being processed,   *)
(* its material graph, the file system and the driver's local variables.   *)
(* Every call into the host (operators and data blocks) completes or       *)
(* raises; the library code fixes what happens before and after it.        *)
(*                                                                         *)
(* Units: lengths are whole millimetres (rounded), shader scalars are      *)
(* hundredths (0.9 is 90), file sizes are whole KB.                        *)
(***************************************************************************)
EXTENDS Bags, FiniteSets, Integers, Sequences, TLC

(***************************************************************************)
(* Bounds of the model.                                                    *)
(***************************************************************************)
\* number of registry entries one batch run iterates over
MaxBatch == 2
\* largest number of vertices the host's weld pass merges away
MaxMerged == 1
\* number of placement calls made on one BMesh when mesh_ops is run alone
MaxPlacements == 4

(***************************************************************************)
(* lib/conventions.py                                                      *)
(***************************************************************************)
BUDGET_SMALL == 300
BUDGET_MEDIUM == 1200
BUDGET_LARGE == 2500
TEX_PROP_SMALL == 256
TEX_PROP_LARGE == 512
TEX_SURFACE == 1024
MAX_GLB_KB == 100
JPEG_QUALITY == 85
BAKE_SAMPLES_FAST == 1
BAKE_SAMPLES_AO == 64
MODEL_OUTPUT_DIR == <<"public", "assets", "models", "props", "ironrath">>
TEXTURE_OUTPUT_DIR == <<"public", "assets", "textures">>

\* metallic entry of MATERIAL_RANGES, as a set of admissible hundredths
MATERIAL_RANGES ==
    [northern_stone |-> {0}, ironwood |-> {0}, dark_iron |-> 85..95,
     leather |-> {0}, ceramic |-> {0}, fabric |-> {0}]

(***************************************************************************)
(* lib/mesh_ops.py: primitive placements on a BMesh.  A BMesh is its       *)
(* vertex count, the bag of its face arities and the z coordinates of its  *)
(* vertices.                                                               *)
(***************************************************************************)
bmesh_new == [verts |-> 0, faces |-> EmptyBag, zs |-> {}, placed |-> <<>>]

\* count faces of one arity, as a bag
NewFaces(arity, count) == IF count = 0 THEN EmptyBag ELSE (arity :> count)

create_cylinder_section(bm, height, segments, z_offset) ==
    [bm EXCEPT !.verts = @ + 2 * segments,
               !.faces = @ (+) NewFaces(4, segments) (+) NewFaces(segments, 2),
               !.zs = @ \cup {z_offset, z_offset + height}]

create_box_SharesLevel(bm, height, z) ==
    [bm EXCEPT !.verts = @ + (IF z \in bm.zs THEN 4 ELSE 8),
               !.faces = @ (+) NewFaces(4, 6),
               !.zs = @ \cup {z, z + height}]

create_box(bm, height, z) ==
    [bm EXCEPT !.verts = @ + 8,
               !.faces = @ (+) NewFaces(4, 6),
               !.zs = @ \cup {z, z + height}]

\* the half cylinder gen_stone_pilaster builds inline: segments + 1 vertices
\* per rim, one quad per segment and the two rims as faces
half_cylinder(bm, height, segments, z_offset) ==
    [bm EXCEPT !.verts = @ + 2 * (segments + 1),
               !.faces = @ (+) NewFaces(4, segments) (+) NewFaces(segments + 1, 2),
               !.zs = @ \cup {z_offset, z_offset + height}]

(***************************************************************************)
(* The placements a generator makes, in call order.                        *)
(***************************************************************************)
Box(z, height) == [kind |-> "box", segments |-> 0, z |-> z, height |-> height]
Cyl(segments, z_offset, height) ==
    [kind |-> "cylinder", segments |-> segments, z |-> z_offset, height |-> height]
HalfCyl(segments, z_offset, height) ==
    [kind |-> "half_cylinder", segments |-> segments, z |-> z_offset, height |-> height]

\* a box whose centre is passed: x in half millimetres and y in multiples of
\* sqrt(3)/2 mm, the units in which the thirds of a turn are exact
BoxAt(x, y, z, height) ==
    [kind |-> "box", segments |-> 0, z |-> z, height |-> height, x |-> x, y |-> y]

\* math.cos and math.sin of 2 * pi * i / 3: the cosine is CosThird(i) / 2 and
\* the sine is SinThird(i) * sqrt(3) / 2
CosThird(i) == IF i % 3 = 0 THEN 2 ELSE -1
SinThird(i) == CASE i % 3 = 0 -> 0 [] i % 3 = 1 -> 1 [] OTHER -> -1

\* one placement call; placed is the record of the calls made on the BMesh
Place(bm, p) ==
    [(CASE p.kind = "box" -> create_box(bm, p.height, p.z)
        [] p.kind = "cylinder" -> create_cylinder_section(bm, p.height, p.segments, p.z)
        [] p.kind = "half_cylinder" -> half_cylinder(bm, p.height, p.segments, p.z))
     EXCEPT !.placed = Append(@, p)]

RECURSIVE BuildMesh(_, _)
BuildMesh(bm, placements) ==
    IF placements = <<>> THEN bm
    ELSE BuildMesh(Place(bm, Head(placements)), Tail(placements))

(***************************************************************************)
(* Material node graphs.  A node is its identity (a creation counter that  *)
(* is never reused within one material), its type and the image it         *)
(* references; a link joins an output socket to an input socket; an input  *)
(* is the default value of an unlinked scalar socket, in hundredths.       *)
(***************************************************************************)
NoImage == ""
NotPassed == -1
Arg(v, default) == IF v = NotPassed THEN default ELSE v

\* a Mix node is created with blend_type MIX
Node(id, type) ==
    [id |-> id, type |-> type, image |-> NoImage,
     blend_type |-> IF type = "ShaderNodeMix" THEN "MIX" ELSE ""]
Link(from, out, to, inp) == [from |-> from, out |-> out, to |-> to, inp |-> inp]
Input(node, socket, value) == [node |-> node, socket |-> socket, value |-> value]

\* bpy.data.materials.new(name): a material without a node tree
material_new(name) ==
    [name |-> name, nodes |-> {}, links |-> {}, inputs |-> {}, next |-> 1, active |-> 0]

NoMaterial == material_new("")

\* nodes.new(type): the new node has identity mat.next
nodes_new(mat, type) ==
    [mat EXCEPT !.nodes = @ \cup {Node(mat.next, type)}, !.next = @ + 1]

\* nodes.remove(node): the node goes, and every link and input on it
nodes_remove(mat, id) ==
    [mat EXCEPT !.nodes = {n \in @ : n.id # id},
                !.links = {l \in @ : l.from # id /\ l.to # id},
                !.inputs = {i \in @ : i.node # id},
                !.active = IF @ = id THEN 0 ELSE @]

\* nodes.clear()
nodes_clear(mat) ==
    [mat EXCEPT !.nodes = {}, !.links = {}, !.inputs = {}, !.active = 0]

links_new(mat, from, out, to, inp) ==
    [mat EXCEPT !.links = {l \in @ : ~(l.to = to /\ l.inp = inp)}
                          \cup {Link(from, out, to, inp)}]

set_input(mat, node, socket, value) ==
    [mat EXCEPT !.inputs = {i \in @ : ~(i.node = node /\ i.socket = socket)}
                           \cup {Input(node, socket, value)}]

set_image(mat, id, image) ==
    [mat EXCEPT !.nodes = {IF n.id = id THEN [n EXCEPT !.image = image] ELSE n : n \in @}]

set_blend_type(mat, id, blend_type) ==
    [mat EXCEPT !.nodes = {IF n.id = id THEN [n EXCEPT !.blend_type = blend_type] ELSE n : n \in @}]

\* nodes.new(type) for each of types in turn: the i-th new node has identity
\* mat.next + i - 1
NewNodes(mat, types) ==
    [mat EXCEPT !.nodes = @ \cup {Node(mat.next + i - 1, types[i]) : i \in 1..Len(types)},
                !.next = @ + Len(types)]

RECURSIVE NewLinks(_, _, _)
\* links given relative to base: <<i, out, j, inp>> joins node base+i to base+j
NewLinks(mat, base, ls) ==
    IF ls = <<>> THEN mat
    ELSE LET l == Head(ls)
         IN NewLinks(links_new(mat, base + l[1], l[2], base + l[3], l[4]), base, Tail(ls))

RECURSIVE SetInputs(_, _, _)
SetInputs(mat, base, is) ==
    IF is = <<>> THEN mat
    ELSE LET i == Head(is)
         IN SetInputs(set_input(mat, base + i[1], i[2], i[3]), base, Tail(is))

\* mat.use_nodes = True: the host's default tree, a Principled BSDF wired to
\* the Material Output, metallic 0
use_nodes(mat) ==
    LET base == mat.next - 1
        m1 == NewNodes(mat, <<"ShaderNodeBsdfPrincipled", "ShaderNodeOutputMaterial">>)
        m2 == NewLinks(m1, base, << <<1, "BSDF", 2, "Surface">> >>)
    IN SetInputs(m2, base, << <<1, "Metallic", 0>>, <<1, "Roughness", 50>> >>)

\* a factory body: clear the default tree, create the nodes in source order,
\* then wire them and set the scalar inputs
BuildGraph(name, types, ls, is) ==
    LET m0 == nodes_clear(use_nodes(material_new(name)))
        base == m0.next - 1
    IN SetInputs(NewLinks(NewNodes(m0, types), base, ls), base, is)

(***************************************************************************)
(* lib/materials.py                                                        *)
(***************************************************************************)
create_northern_stone_SeedsNoise(name, scale, seed) ==
    LET s == Arg(scale, 400)
    IN BuildGraph(name,
        <<"ShaderNodeOutputMaterial", "ShaderNodeBsdfPrincipled", "ShaderNodeTexCoord",
          "ShaderNodeMapping", "ShaderNodeTexNoise", "ShaderNodeTexVoronoi",
          "ShaderNodeMix", "ShaderNodeValToRGB", "ShaderNodeBump">>,
        << <<2, "BSDF", 1, "Surface">>, <<3, "Object", 4, "Vector">>,
           <<4, "Vector", 5, "Vector">>, <<4, "Vector", 6, "Vector">>,
           <<5, "Fac", 7, "inputs[2]">>, <<6, "Distance", 7, "inputs[3]">>,
           <<7, "outputs[0]", 8, "Fac">>, <<8, "Color", 2, "Base Color">>,
           <<5, "Fac", 9, "Height">>, <<9, "Normal", 2, "Normal">> >>,
        << <<2, "Roughness", 85>>, <<2, "Specular IOR Level", 30>>, <<2, "Metallic", 0>>,
           <<4, "Scale.x", s>>, <<4, "Scale.y", s>>, <<4, "Scale.z", s>>,
           <<5, "Scale", 600 + Arg(seed, 0)>>, <<5, "Detail", 800>>, <<5, "Roughness", 60>>,
           <<6, "Scale", 300>>, <<7, "Factor", 30>>, <<9, "Strength", 30>> >>)

create_northern_stone(name, scale, seed) ==
    LET s == Arg(scale, 400)
    IN BuildGraph(name,
        <<"ShaderNodeOutputMaterial", "ShaderNodeBsdfPrincipled", "ShaderNodeTexCoord",
          "ShaderNodeMapping", "ShaderNodeTexNoise", "ShaderNodeTexVoronoi",
          "ShaderNodeMix", "ShaderNodeValToRGB", "ShaderNodeBump">>,
        << <<2, "BSDF", 1, "Surface">>, <<3, "Object", 4, "Vector">>,
           <<4, "Vector", 5, "Vector">>, <<4, "Vector", 6, "Vector">>,
           <<5, "Fac", 7, "inputs[2]">>, <<6, "Distance", 7, "inputs[3]">>,
           <<7, "outputs[0]", 8, "Fac">>, <<8, "Color", 2, "Base Color">>,
           <<5, "Fac", 9, "Height">>, <<9, "Normal", 2, "Normal">> >>,
        << <<2, "Roughness", 85>>, <<2, "Specular IOR Level", 30>>, <<2, "Metallic", 0>>,
           <<4, "Scale.x", s>>, <<4, "Scale.y", s>>, <<4, "Scale.z", s>>,
           <<5, "Scale", 600>>, <<5, "Detail", 800>>, <<5, "Roughness", 60>>,
           <<6, "Scale", 300>>, <<7, "Factor", 30>>, <<9, "Strength", 30>> >>)

create_ironwood(name, scale, grain_density, seed) ==
    LET s == Arg(scale, 200)
        g == Arg(grain_density, 300)
    IN BuildGraph(name,
        <<"ShaderNodeOutputMaterial", "ShaderNodeBsdfPrincipled", "ShaderNodeTexCoord",
          "ShaderNodeMapping", "ShaderNodeTexWave", "ShaderNodeTexNoise",
          "ShaderNodeTexVoronoi", "ShaderNodeMix", "ShaderNodeMix",
          "ShaderNodeValToRGB", "ShaderNodeValToRGB", "ShaderNodeBump">>,
        << <<2, "BSDF", 1, "Surface">>, <<3, "Object", 4, "Vector">>,
           <<4, "Vector", 5, "Vector">>, <<4, "Vector", 6, "Vector">>,
           <<4, "Vector", 7, "Vector">>,
           <<5, "Fac", 8, "inputs[2]">>, <<6, "Fac", 8, "inputs[3]">>,
           <<8, "outputs[0]", 9, "inputs[2]">>, <<7, "Distance", 9, "inputs[3]">>,
           <<9, "outputs[0]", 10, "Fac">>, <<10, "Color", 2, "Base Color">>,
           <<8, "outputs[0]", 11, "Fac">>, <<11, "Color", 2, "Roughness">>,
           <<9, "outputs[0]", 12, "Height">>, <<12, "Normal", 2, "Normal">> >>,
        << <<2, "Roughness", 65>>, <<2, "Specular IOR Level", 35>>, <<2, "Metallic", 0>>,
           <<4, "Scale.x", s>>, <<4, "Scale.y", s>>, <<4, "Scale.z", s * 4>>,
           <<5, "Scale", g>>, <<5, "Distortion", 400>>, <<5, "Detail", 400>>,
           <<6, "Scale", 1200>>, <<6, "Detail", 600>>, <<7, "Scale", 200>>,
           <<8, "Factor", 30>>, <<9, "Factor", 15>>, <<12, "Strength", 20>> >>)

create_dark_iron(name, scale, seed) ==
    LET s == Arg(scale, 800)
    IN BuildGraph(name,
        <<"ShaderNodeOutputMaterial", "ShaderNodeBsdfPrincipled", "ShaderNodeTexCoord",
          "ShaderNodeMapping", "ShaderNodeTexNoise", "ShaderNodeTexWave",
          "ShaderNodeMix", "ShaderNodeBump">>,
        << <<2, "BSDF", 1, "Surface">>, <<3, "Object", 4, "Vector">>,
           <<4, "Vector", 5, "Vector">>, <<4, "Vector", 6, "Vector">>,
           <<6, "Fac", 7, "inputs[3]">>, <<7, "outputs[0]", 2, "Roughness">>,
           <<5, "Fac", 8, "Height">>, <<8, "Normal", 2, "Normal">> >>,
        << <<2, "Roughness", 45>>, <<2, "Metallic", 90>>, <<2, "Specular IOR Level", 50>>,
           <<4, "Scale.x", s>>, <<4, "Scale.y", s>>, <<4, "Scale.z", s>>,
           <<5, "Scale", 2000>>, <<5, "Detail", 400>>,
           <<6, "Scale", 1500>>, <<6, "Distortion", 800>>, <<6, "Detail", 300>>,
           <<7, "Factor", 30>>, <<7, "inputs[2]", 45>>, <<8, "Strength", 15>> >>)

create_leather_GrainUnmapped(name, seed) ==
    BuildGraph(name,
        <<"ShaderNodeOutputMaterial", "ShaderNodeBsdfPrincipled", "ShaderNodeTexCoord",
          "ShaderNodeMapping", "ShaderNodeTexVoronoi", "ShaderNodeBump">>,
        << <<2, "BSDF", 1, "Surface">>, <<3, "Object", 4, "Vector">>,
           <<5, "Distance", 6, "Height">>, <<6, "Normal", 2, "Normal">> >>,
        << <<2, "Roughness", 60>>, <<2, "Metallic", 0>>,
           <<4, "Scale.x", 600>>, <<4, "Scale.y", 600>>, <<4, "Scale.z", 600>>,
           <<5, "Scale", 1500>>, <<6, "Strength", 10>> >>)

create_leather(name, seed) ==
    BuildGraph(name,
        <<"ShaderNodeOutputMaterial", "ShaderNodeBsdfPrincipled", "ShaderNodeTexCoord",
          "ShaderNodeMapping", "ShaderNodeTexVoronoi", "ShaderNodeBump">>,
        << <<2, "BSDF", 1, "Surface">>, <<3, "Object", 4, "Vector">>,
           <<4, "Vector", 5, "Vector">>,
           <<5, "Distance", 6, "Height">>, <<6, "Normal", 2, "Normal">> >>,
        << <<2, "Roughness", 60>>, <<2, "Metallic", 0>>,
           <<4, "Scale.x", 600>>, <<4, "Scale.y", 600>>, <<4, "Scale.z", 600>>,
           <<5, "Scale", 1500>>, <<6, "Strength", 10>> >>)

\* the materials the generators build inline: the default tree of
\* use_nodes with the Principled BSDF's scalars overwritten
inline_material(name, roughness) ==
    LET m == use_nodes(material_new(name))
    IN IF roughness = NotPassed THEN m ELSE set_input(m, 1, "Roughness", roughness)

\* the material a generator creates, from its material record
MakeMaterial(m) ==
    CASE m.factory = "create_northern_stone" -> create_northern_stone(m.name, m.scale, m.seed)
      [] m.factory = "create_ironwood" -> create_ironwood(m.name, m.scale, m.grain_density, m.seed)
      [] m.factory = "create_dark_iron" -> create_dark_iron(m.name, m.scale, m.seed)
      [] m.factory = "create_leather" -> create_leather(m.name, m.seed)
      [] m.factory = "inline" -> inline_material(m.name, m.roughness)

(***************************************************************************)
(* generate_prop.py: the prop generators.  Each is the data of its body:   *)
(* the object and mesh names, the placements, the material it creates, the *)
(* number of obj.data.materials.append calls and the tuple it returns.     *)
(***************************************************************************)
gen_stone_hearth ==
    [obj |-> "stone_hearth", mesh |-> "hearth_mesh",
     placements |-> <<Box(0, 3000), Box(0, 3000), Box(0, 3000), Box(3000, 400), Box(0, 150), Box(3400, 2000), Box(150, 2000)>>,
     material |-> [factory |-> "create_northern_stone", name |-> "HearthStone", scale |-> 300, grain_density |-> NotPassed,
                  seed |-> NotPassed, roughness |-> NotPassed],
     appends |-> 1,
     ret |-> <<"obj", TEX_PROP_LARGE>>]

gen_raised_dais ==
    [obj |-> "raised_dais", mesh |-> "dais_mesh",
     placements |-> <<Box(0, 150), Box(150, 150)>>,
     material |-> [factory |-> "create_northern_stone", name |-> "DaisStone", scale |-> 500, grain_density |-> NotPassed,
                  seed |-> NotPassed, roughness |-> NotPassed],
     appends |-> 1,
     ret |-> <<"obj", TEX_PROP_LARGE>>]

gen_stone_arch ==
    [obj |-> "stone_arch", mesh |-> "arch_mesh",
     placements |-> <<Box(0, 3000), Box(0, 3000), Box(3191, 483), Box(3545, 424), Box(3815, 317), Box(3962, 250), Box(3962, 250), Box(3815, 317), Box(3545, 424), Box(3191, 483)>>,
     material |-> [factory |-> "create_northern_stone", name |-> "ArchStone", scale |-> 400, grain_density |-> NotPassed,
                  seed |-> NotPassed, roughness |-> NotPassed],
     appends |-> 1,
     ret |-> <<"obj", TEX_PROP_LARGE>>]

gen_stone_pilaster ==
    [obj |-> "stone_pilaster", mesh |-> "pilaster_mesh",
     placements |-> <<HalfCyl(8, 0, 3500), Box(0, 300), Box(3500, 300)>>,
     material |-> [factory |-> "create_northern_stone", name |-> "PilasterStone", scale |-> 400, grain_density |-> NotPassed,
                  seed |-> NotPassed, roughness |-> NotPassed],
     appends |-> 1,
     ret |-> <<"obj", TEX_PROP_LARGE>>]

gen_corbel_bracket ==
    [obj |-> "corbel_bracket", mesh |-> "corbel_mesh",
     placements |-> <<Box(0, 300), Box(300, 400), Box(700, 500)>>,
     material |-> [factory |-> "create_northern_stone", name |-> "CorbelStone", scale |-> 600, grain_density |-> NotPassed,
                  seed |-> NotPassed, roughness |-> NotPassed],
     appends |-> 1,
     ret |-> <<"obj", TEX_PROP_SMALL>>]

gen_stone_window_frame ==
    [obj |-> "stone_window_frame", mesh |-> "window_mesh",
     placements |-> <<Box(0, 2500), Box(0, 2500), Box(2500, 200), Box(0, 150), Box(0, 2500), Box(1500, 100)>>,
     material |-> [factory |-> "create_northern_stone", name |-> "WindowStone", scale |-> 300, grain_density |-> NotPassed,
                  seed |-> NotPassed, roughness |-> NotPassed],
     appends |-> 1,
     ret |-> <<"obj", TEX_PROP_LARGE>>]

gen_door_frame ==
    [obj |-> "door_frame", mesh |-> "door_mesh",
     placements |-> <<Box(0, 3500), Box(0, 3500), Box(3500, 300), Box(50, 3400), Box(50, 3400), Box(800, 150), Box(2200, 150)>>,
     material |-> [factory |-> "create_ironwood", name |-> "DoorIronwood", scale |-> NotPassed, grain_density |-> NotPassed,
                  seed |-> NotPassed, roughness |-> NotPassed],
     appends |-> 1,
     ret |-> <<"obj", TEX_PROP_LARGE>>]

gen_ironwood_throne ==
    [obj |-> "ironwood_throne", mesh |-> "throne_mesh",
     placements |-> <<Box(1000, 150), Box(1100, 2000), Box(1100, 600), Box(1100, 600), Box(0, 1000), Box(0, 1000), Box(0, 3000), Box(0, 3000), Box(2900, 300)>>,
     material |-> [factory |-> "create_ironwood", name |-> "ThroneIronwood", scale |-> NotPassed, grain_density |-> NotPassed,
                  seed |-> NotPassed, roughness |-> NotPassed],
     appends |-> 1,
     ret |-> <<"obj", TEX_PROP_LARGE>>]

gen_long_table ==
    [obj |-> "long_table", mesh |-> "table_mesh",
     placements |-> <<Box(900, 120), Box(0, 900), Box(0, 900), Box(0, 900), Box(0, 900), Box(300, 100), Box(0, 900), Box(0, 900), Box(0, 900), Box(0, 900), Box(300, 100), Box(0, 900), Box(0, 900), Box(0, 900), Box(0, 900), Box(300, 100), Box(200, 80), Box(200, 80)>>,
     material |-> [factory |-> "create_ironwood", name |-> "TableIronwood", scale |-> NotPassed, grain_density |-> 200,
                  seed |-> NotPassed, roughness |-> NotPassed],
     appends |-> 1,
     ret |-> <<"obj", TEX_PROP_LARGE>>]

gen_bench ==
    [obj |-> "bench", mesh |-> "bench_mesh",
     placements |-> <<Box(450, 80), Box(0, 450), Box(0, 450), Box(0, 450), Box(0, 450), Box(150, 60)>>,
     material |-> [factory |-> "create_ironwood", name |-> "BenchWood", scale |-> NotPassed, grain_density |-> 250,
                  seed |-> NotPassed, roughness |-> NotPassed],
     appends |-> 1,
     ret |-> <<"obj", TEX_PROP_LARGE>>]

gen_high_seat ==
    [obj |-> "high_seat", mesh |-> "seat_mesh",
     placements |-> <<Box(800, 100), Box(850, 1200), Box(850, 400), Box(850, 400), Box(0, 800), Box(0, 800), Box(0, 2000), Box(0, 2000)>>,
     material |-> [factory |-> "create_ironwood", name |-> "SeatIronwood", scale |-> NotPassed, grain_density |-> NotPassed,
                  seed |-> NotPassed, roughness |-> NotPassed],
     appends |-> 1,
     ret |-> <<"obj", TEX_PROP_LARGE>>]

gen_chair ==
    [obj |-> "chair", mesh |-> "chair_mesh",
     placements |-> <<Box(550, 80), Box(600, 900), Box(0, 550), Box(0, 550), Box(0, 1500), Box(0, 1500)>>,
     material |-> [factory |-> "create_ironwood", name |-> "ChairWood", scale |-> NotPassed, grain_density |-> 250,
                  seed |-> NotPassed, roughness |-> NotPassed],
     appends |-> 1,
     ret |-> <<"obj", TEX_PROP_SMALL>>]

gen_sideboard ==
    [obj |-> "sideboard", mesh |-> "sideboard_mesh",
     placements |-> <<Box(850, 100), Box(0, 850), Box(0, 850), Box(0, 850), Box(400, 80)>>,
     material |-> [factory |-> "create_ironwood", name |-> "SideboardWood", scale |-> NotPassed, grain_density |-> NotPassed,
                  seed |-> NotPassed, roughness |-> NotPassed],
     appends |-> 1,
     ret |-> <<"obj", TEX_PROP_LARGE>>]

gen_wooden_chest_large ==
    [obj |-> "wooden_chest_large", mesh |-> "chest_mesh",
     placements |-> <<Box(0, 600), Box(600, 100), Box(150, 50), Box(400, 50)>>,
     material |-> [factory |-> "create_ironwood", name |-> "ChestWood", scale |-> NotPassed, grain_density |-> NotPassed,
                  seed |-> NotPassed, roughness |-> NotPassed],
     appends |-> 1,
     ret |-> <<"obj", TEX_PROP_LARGE>>]

gen_stool_LegsTogether ==
    [obj |-> "stool", mesh |-> "stool_mesh",
     placements |-> <<Cyl(8, 450, 60)>>
                    \o [i \in 1..3 |-> BoxAt(150 * CosThird(0), 150 * SinThird(0), 0, 450)],
     material |-> [factory |-> "create_ironwood", name |-> "StoolWood", scale |-> NotPassed, grain_density |-> 300,
                  seed |-> NotPassed, roughness |-> NotPassed],
     appends |-> 1,
     ret |-> <<"obj", TEX_PROP_SMALL>>]

\* the legs are placed by the loop over range(3), at 0.15 m from the axis
gen_stool ==
    [obj |-> "stool", mesh |-> "stool_mesh",
     placements |-> <<Cyl(8, 450, 60)>>
                    \o [i \in 1..3 |-> BoxAt(150 * CosThird(i - 1), 150 * SinThird(i - 1), 0, 450)],
     material |-> [factory |-> "create_ironwood", name |-> "StoolWood", scale |-> NotPassed, grain_density |-> 300,
                  seed |-> NotPassed, roughness |-> NotPassed],
     appends |-> 1,
     ret |-> <<"obj", TEX_PROP_SMALL>>]

gen_roof_beam ==
    [obj |-> "roof_beam", mesh |-> "beam_mesh",
     placements |-> <<Box(0, 500)>>,
     material |-> [factory |-> "create_ironwood", name |-> "BeamIronwood", scale |-> 100, grain_density |-> 200,
                  seed |-> NotPassed, roughness |-> NotPassed],
     appends |-> 1,
     ret |-> <<"obj", TEX_PROP_LARGE>>]

gen_roof_joist ==
    [obj |-> "roof_joist", mesh |-> "joist_mesh",
     placements |-> <<Box(0, 250)>>,
     material |-> [factory |-> "create_ironwood", name |-> "JoistWood", scale |-> NotPassed, grain_density |-> 300,
                  seed |-> NotPassed, roughness |-> NotPassed],
     appends |-> 1,
     ret |-> <<"obj", TEX_PROP_LARGE>>]

gen_rafter_set ==
    [obj |-> "rafter_set", mesh |-> "rafter_mesh",
     placements |-> <<Box(0, 3000), Box(0, 3000), Box(2800, 150), Box(1500, 120)>>,
     material |-> [factory |-> "create_ironwood", name |-> "RafterWood", scale |-> NotPassed, grain_density |-> NotPassed,
                  seed |-> NotPassed, roughness |-> NotPassed],
     appends |-> 1,
     ret |-> <<"obj", TEX_PROP_LARGE>>]

gen_banner ==
    [obj |-> "banner", mesh |-> "banner_mesh",
     placements |-> <<Box(2500, 60), Box(500, 2000)>>,
     material |-> [factory |-> "inline", name |-> "BannerFabric", scale |-> NotPassed, grain_density |-> NotPassed,
                  seed |-> NotPassed, roughness |-> 90],
     appends |-> 1,
     ret |-> <<"obj", TEX_PROP_LARGE>>]

gen_tapestry ==
    [obj |-> "tapestry", mesh |-> "tapestry_mesh",
     placements |-> <<Box(500, 2500), Box(3000, 60)>>,
     material |-> [factory |-> "inline", name |-> "TapestryFabric", scale |-> NotPassed, grain_density |-> NotPassed,
                  seed |-> NotPassed, roughness |-> 95],
     appends |-> 1,
     ret |-> <<"obj", TEX_PROP_LARGE>>]

gen_weapon_rack ==
    [obj |-> "weapon_rack", mesh |-> "rack_mesh",
     placements |-> <<Box(800, 1200), Box(1600, 60), Box(1000, 60), Box(1600, 60), Box(1000, 60), Box(1600, 60), Box(1000, 60), Box(1100, 1000), Box(1150, 800)>>,
     material |-> [factory |-> "create_ironwood", name |-> "RackWood", scale |-> NotPassed, grain_density |-> NotPassed,
                  seed |-> NotPassed, roughness |-> NotPassed],
     appends |-> 1,
     ret |-> <<"obj", TEX_PROP_LARGE>>]

gen_dire_wolf_shield ==
    [obj |-> "dire_wolf_shield", mesh |-> "shield_mesh",
     placements |-> <<Cyl(8, 0, 60), Cyl(8, 60, 40)>>,
     material |-> [factory |-> "create_dark_iron", name |-> "ShieldIron", scale |-> NotPassed, grain_density |-> NotPassed,
                  seed |-> NotPassed, roughness |-> NotPassed],
     appends |-> 1,
     ret |-> <<"obj", TEX_PROP_SMALL>>]

gen_mounted_antlers ==
    [obj |-> "mounted_antlers", mesh |-> "antlers_mesh",
     placements |-> <<Cyl(8, 0, 40), Box(40, 500), Box(40, 500), Box(300, 300), Box(300, 300)>>,
     material |-> [factory |-> "create_ironwood", name |-> "AntlerWood", scale |-> NotPassed, grain_density |-> NotPassed,
                  seed |-> NotPassed, roughness |-> NotPassed],
     appends |-> 1,
     ret |-> <<"obj", TEX_PROP_SMALL>>]

gen_iron_candle_tree ==
    [obj |-> "iron_candle_tree", mesh |-> "candle_tree_mesh",
     placements |-> <<Cyl(8, 0, 50), Cyl(8, 50, 1500), Box(1300, 250), Cyl(6, 1550, 50), Box(1300, 250), Cyl(6, 1550, 50), Box(1300, 250), Cyl(6, 1550, 50)>>,
     material |-> [factory |-> "create_dark_iron", name |-> "CandleTreeIron", scale |-> NotPassed, grain_density |-> NotPassed,
                  seed |-> NotPassed, roughness |-> NotPassed],
     appends |-> 1,
     ret |-> <<"obj", TEX_PROP_SMALL>>]

gen_heraldic_crest ==
    [obj |-> "heraldic_crest", mesh |-> "crest_mesh",
     placements |-> <<Box(0, 800), Box(100, 400)>>,
     material |-> [factory |-> "create_northern_stone", name |-> "CrestStone", scale |-> 800, grain_density |-> NotPassed,
                  seed |-> NotPassed, roughness |-> NotPassed],
     appends |-> 1,
     ret |-> <<"obj", TEX_PROP_SMALL>>]

gen_iron_torch_holder ==
    [obj |-> "iron_torch_holder", mesh |-> "torch_holder_mesh",
     placements |-> <<Box(0, 200), Box(100, 40), Cyl(6, 100, 100)>>,
     material |-> [factory |-> "create_dark_iron", name |-> "TorchIron", scale |-> NotPassed, grain_density |-> NotPassed,
                  seed |-> NotPassed, roughness |-> NotPassed],
     appends |-> 1,
     ret |-> <<"obj", TEX_PROP_SMALL>>]

gen_iron_chandelier ==
    [obj |-> "iron_chandelier", mesh |-> "chandelier_mesh",
     placements |-> <<Box(0, 80), Box(0, 80), Box(0, 80), Box(0, 80), Box(0, 80), Box(0, 80), Box(0, 80), Box(0, 80), Box(0, 80), Box(0, 80), Box(0, 80), Box(0, 80), Box(0, 80), Box(0, 80), Box(0, 80), Box(0, 80), Cyl(6, 80, 60), Cyl(6, 80, 60), Cyl(6, 80, 60), Cyl(6, 80, 60), Cyl(6, 80, 60), Cyl(6, 80, 60), Box(80, 500), Box(80, 500), Box(80, 500)>>,
     material |-> [factory |-> "create_dark_iron", name |-> "ChandelierIron", scale |-> NotPassed, grain_density |-> NotPassed,
                  seed |-> NotPassed, roughness |-> NotPassed],
     appends |-> 1,
     ret |-> <<"obj", TEX_PROP_LARGE>>]

gen_wall_sconce ==
    [obj |-> "wall_sconce", mesh |-> "sconce_mesh",
     placements |-> <<Box(0, 150), Box(80, 30), Cyl(6, 80, 80)>>,
     material |-> [factory |-> "create_dark_iron", name |-> "SconceIron", scale |-> NotPassed, grain_density |-> NotPassed,
                  seed |-> NotPassed, roughness |-> NotPassed],
     appends |-> 1,
     ret |-> <<"obj", TEX_PROP_SMALL>>]

gen_candelabra ==
    [obj |-> "candelabra", mesh |-> "candelabra_mesh",
     placements |-> <<Cyl(8, 0, 20), Cyl(6, 20, 300), Cyl(6, 250, 150), Cyl(6, 250, 150), Cyl(6, 250, 150)>>,
     material |-> [factory |-> "create_dark_iron", name |-> "CandelabraIron", scale |-> NotPassed, grain_density |-> NotPassed,
                  seed |-> NotPassed, roughness |-> NotPassed],
     appends |-> 1,
     ret |-> <<"obj", TEX_PROP_SMALL>>]

gen_iron_brazier ==
    [obj |-> "iron_brazier", mesh |-> "brazier_mesh",
     placements |-> <<Cyl(8, 0, 50), Cyl(8, 50, 600), Cyl(8, 650, 200)>>,
     material |-> [factory |-> "create_dark_iron", name |-> "BrazierIron", scale |-> NotPassed, grain_density |-> NotPassed,
                  seed |-> NotPassed, roughness |-> NotPassed],
     appends |-> 1,
     ret |-> <<"obj", TEX_PROP_SMALL>>]

gen_goblet ==
    [obj |-> "goblet", mesh |-> "goblet_mesh",
     placements |-> <<Cyl(8, 0, 10), Cyl(6, 10, 60), Cyl(8, 70, 50)>>,
     material |-> [factory |-> "create_dark_iron", name |-> "GobletMetal", scale |-> NotPassed, grain_density |-> NotPassed,
                  seed |-> NotPassed, roughness |-> NotPassed],
     appends |-> 1,
     ret |-> <<"obj", TEX_PROP_SMALL>>]

gen_plate ==
    [obj |-> "plate", mesh |-> "plate_mesh",
     placements |-> <<Cyl(12, 0, 20)>>,
     material |-> [factory |-> "inline", name |-> "Ceramic", scale |-> NotPassed, grain_density |-> NotPassed,
                  seed |-> NotPassed, roughness |-> 40],
     appends |-> 1,
     ret |-> <<"obj", TEX_PROP_SMALL>>]

gen_food_platter ==
    [obj |-> "food_platter", mesh |-> "platter_mesh",
     placements |-> <<Cyl(12, 0, 20), Cyl(6, 20, 60), Cyl(6, 20, 50)>>,
     material |-> [factory |-> "inline", name |-> "PlatterCeramic", scale |-> NotPassed, grain_density |-> NotPassed,
                  seed |-> NotPassed, roughness |-> 45],
     appends |-> 1,
     ret |-> <<"obj", TEX_PROP_SMALL>>]

gen_wine_jug ==
    [obj |-> "wine_jug", mesh |-> "jug_mesh",
     placements |-> <<Cyl(8, 0, 120), Cyl(8, 120, 80), Box(180, 40)>>,
     material |-> [factory |-> "inline", name |-> "JugCeramic", scale |-> NotPassed, grain_density |-> NotPassed,
                  seed |-> NotPassed, roughness |-> 50],
     appends |-> 1,
     ret |-> <<"obj", TEX_PROP_SMALL>>]

gen_candle_stub ==
    [obj |-> "candle_stub", mesh |-> "candle_mesh",
     placements |-> <<Cyl(6, 0, 60), Cyl(8, 0, 10)>>,
     material |-> [factory |-> "inline", name |-> "Wax", scale |-> NotPassed, grain_density |-> NotPassed,
                  seed |-> NotPassed, roughness |-> 70],
     appends |-> 1,
     ret |-> <<"obj", TEX_PROP_SMALL>>]

gen_floor_crack_KeepsAO ==
    [obj |-> "floor_crack", mesh |-> "crack_mesh",
     placements |-> <<Box(0, 5)>>,
     material |-> [factory |-> "create_northern_stone", name |-> "CrackStone", scale |-> 800, grain_density |-> NotPassed,
                  seed |-> NotPassed, roughness |-> NotPassed],
     appends |-> 1,
     ret |-> <<"obj", TEX_PROP_SMALL>>]

gen_floor_crack ==
    [obj |-> "floor_crack", mesh |-> "crack_mesh",
     placements |-> <<Box(0, 5)>>,
     material |-> [factory |-> "create_northern_stone", name |-> "CrackStone", scale |-> 800, grain_density |-> NotPassed,
                  seed |-> NotPassed, roughness |-> NotPassed],
     appends |-> 1,
     ret |-> <<"obj", TEX_PROP_SMALL, TRUE>>]

gen_wall_moss ==
    [obj |-> "wall_moss", mesh |-> "moss_mesh",
     placements |-> <<Box(0, 600)>>,
     material |-> [factory |-> "inline", name |-> "Moss", scale |-> NotPassed, grain_density |-> NotPassed,
                  seed |-> NotPassed, roughness |-> 95],
     appends |-> 1,
     ret |-> <<"obj", TEX_PROP_SMALL, TRUE>>]

gen_hearth_scorch ==
    [obj |-> "hearth_scorch", mesh |-> "scorch_mesh",
     placements |-> <<Box(0, 5)>>,
     material |-> [factory |-> "inline", name |-> "Scorch", scale |-> NotPassed, grain_density |-> NotPassed,
                  seed |-> NotPassed, roughness |-> 90],
     appends |-> 1,
     ret |-> <<"obj", TEX_PROP_SMALL, TRUE>>]

gen_table_stain ==
    [obj |-> "table_stain", mesh |-> "stain_mesh",
     placements |-> <<Cyl(8, 0, 2)>>,
     material |-> [factory |-> "inline", name |-> "Stain", scale |-> NotPassed, grain_density |-> NotPassed,
                  seed |-> NotPassed, roughness |-> 40],
     appends |-> 1,
     ret |-> <<"obj", TEX_PROP_SMALL, TRUE>>]

gen_fur_rug ==
    [obj |-> "fur_rug", mesh |-> "rug_mesh",
     placements |-> <<Box(0, 30)>>,
     material |-> [factory |-> "create_leather", name |-> "RugLeather", scale |-> NotPassed, grain_density |-> NotPassed,
                  seed |-> NotPassed, roughness |-> NotPassed],
     appends |-> 1,
     ret |-> <<"obj", TEX_PROP_LARGE>>]

gen_rushes ==
    [obj |-> "rushes", mesh |-> "rushes_mesh",
     placements |-> <<Box(0, 20)>>,
     material |-> [factory |-> "inline", name |-> "Rushes", scale |-> NotPassed, grain_density |-> NotPassed,
                  seed |-> NotPassed, roughness |-> 95],
     appends |-> 1,
     ret |-> <<"obj", TEX_PROP_LARGE>>]

gen_hound_sleeping ==
    [obj |-> "hound_sleeping", mesh |-> "hound_mesh",
     placements |-> <<Box(0, 250), Box(50, 200)>>,
     material |-> [factory |-> "create_leather", name |-> "HoundFur", scale |-> NotPassed, grain_density |-> NotPassed,
                  seed |-> NotPassed, roughness |-> NotPassed],
     appends |-> 1,
     ret |-> <<"obj", TEX_PROP_SMALL>>]

gen_worn_path ==
    [obj |-> "worn_path", mesh |-> "path_mesh",
     placements |-> <<Box(0, 3)>>,
     material |-> [factory |-> "create_northern_stone", name |-> "WornStone", scale |-> 600, grain_density |-> NotPassed,
                  seed |-> NotPassed, roughness |-> NotPassed],
     appends |-> 1,
     ret |-> <<"obj", TEX_PROP_LARGE, TRUE>>]

gen_cobweb ==
    [obj |-> "cobweb", mesh |-> "cobweb_mesh",
     placements |-> <<Box(0, 500)>>,
     material |-> [factory |-> "inline", name |-> "Cobweb", scale |-> NotPassed, grain_density |-> NotPassed,
                  seed |-> NotPassed, roughness |-> 90],
     appends |-> 1,
     ret |-> <<"obj", TEX_PROP_SMALL>>]

PROP_REGISTRY ==
    "stone-hearth" :> gen_stone_hearth
    @@ "raised-dais" :> gen_raised_dais
    @@ "stone-arch" :> gen_stone_arch
    @@ "stone-pilaster" :> gen_stone_pilaster
    @@ "corbel-bracket" :> gen_corbel_bracket
    @@ "stone-window-frame" :> gen_stone_window_frame
    @@ "door-frame" :> gen_door_frame
    @@ "ironwood-throne" :> gen_ironwood_throne
    @@ "long-table" :> gen_long_table
    @@ "bench" :> gen_bench
    @@ "high-seat" :> gen_high_seat
    @@ "chair" :> gen_chair
    @@ "sideboard" :> gen_sideboard
    @@ "wooden-chest-large" :> gen_wooden_chest_large
    @@ "stool" :> gen_stool
    @@ "roof-beam" :> gen_roof_beam
    @@ "roof-joist" :> gen_roof_joist
    @@ "rafter-set" :> gen_rafter_set
    @@ "banner" :> gen_banner
    @@ "tapestry" :> gen_tapestry
    @@ "weapon-rack" :> gen_weapon_rack
    @@ "dire-wolf-shield" :> gen_dire_wolf_shield
    @@ "mounted-antlers" :> gen_mounted_antlers
    @@ "iron-candle-tree" :> gen_iron_candle_tree
    @@ "heraldic-crest" :> gen_heraldic_crest
    @@ "iron-torch-holder" :> gen_iron_torch_holder
    @@ "iron-chandelier" :> gen_iron_chandelier
    @@ "wall-sconce" :> gen_wall_sconce
    @@ "candelabra" :> gen_candelabra
    @@ "iron-brazier" :> gen_iron_brazier
    @@ "goblet" :> gen_goblet
    @@ "plate" :> gen_plate
    @@ "food-platter" :> gen_food_platter
    @@ "wine-jug" :> gen_wine_jug
    @@ "candle-stub" :> gen_candle_stub
    @@ "floor-crack" :> gen_floor_crack
    @@ "wall-moss" :> gen_wall_moss
    @@ "hearth-scorch" :> gen_hearth_scorch
    @@ "table-stain" :> gen_table_stain
    @@ "fur-rug" :> gen_fur_rug
    @@ "rushes" :> gen_rushes
    @@ "hound-sleeping" :> gen_hound_sleeping
    @@ "worn-path" :> gen_worn_path
    @@ "cobweb" :> gen_cobweb

(***************************************************************************)
(* generate_surface_textures.py: the bake plane and the surface sets.      *)
(***************************************************************************)
\* primitive_plane_add then subdivide(number_cuts=4): a 5 x 5 grid of quads
create_bake_plane == [verts |-> 36, faces |-> NewFaces(4, 25), zs |-> {0}, placed |-> <<>>]

gen_floor_stone ==
    [obj |-> "bake_plane", mesh |-> "Plane",
     material |-> [factory |-> "create_northern_stone", name |-> "FloorStone", scale |-> 300,
                   grain_density |-> NotPassed, seed |-> 42, roughness |-> NotPassed],
     appends |-> 1,
     ret |-> <<"obj", TEXTURE_OUTPUT_DIR \o <<"stone", "northern-floor">> >>]

gen_wall_stone ==
    [obj |-> "bake_plane", mesh |-> "Plane",
     material |-> [factory |-> "create_northern_stone", name |-> "WallStone", scale |-> 400,
                   grain_density |-> NotPassed, seed |-> 7, roughness |-> NotPassed],
     appends |-> 1,
     ret |-> <<"obj", TEXTURE_OUTPUT_DIR \o <<"stone", "northern-wall">> >>]

gen_ceiling_wood ==
    [obj |-> "bake_plane", mesh |-> "Plane",
     material |-> [factory |-> "create_ironwood", name |-> "CeilingWood", scale |-> 150,
                   grain_density |-> 400, seed |-> 13, roughness |-> NotPassed],
     appends |-> 1,
     ret |-> <<"obj", TEXTURE_OUTPUT_DIR \o <<"wood", "ironwood-ceiling">> >>]

SURFACE_REGISTRY ==
    "floor-stone" :> gen_floor_stone
    @@ "wall-stone" :> gen_wall_stone
    @@ "ceiling-wood" :> gen_ceiling_wood

(***************************************************************************)
(* sorted(REGISTRY.keys()), the order the batch loops iterate in.          *)
(***************************************************************************)
SortedPropKeys ==
    <<"banner", "bench", "candelabra", "candle-stub", "chair", "cobweb",
      "corbel-bracket", "dire-wolf-shield", "door-frame", "floor-crack",
      "food-platter", "fur-rug", "goblet", "hearth-scorch", "heraldic-crest",
      "high-seat", "hound-sleeping", "iron-brazier", "iron-candle-tree",
      "iron-chandelier", "iron-torch-holder", "ironwood-throne",
      "long-table", "mounted-antlers", "plate", "rafter-set", "raised-dais",
      "roof-beam", "roof-joist", "rushes", "sideboard", "stone-arch",
      "stone-hearth", "stone-pilaster", "stone-window-frame", "stool",
      "table-stain", "tapestry", "wall-moss", "wall-sconce", "weapon-rack",
      "wine-jug", "wooden-chest-large", "worn-path">>
SortedSurfaceKeys == <<"ceiling-wood", "floor-stone", "wall-stone">>

Registry(s) == IF s = "prop" THEN PROP_REGISTRY ELSE SURFACE_REGISTRY

Min(a, b) == IF a < b THEN a ELSE b
SeqRange(s) == {s[i] : i \in 1..Len(s)}

\* The key sequences a batch run is checked on: the surface registry whole,
\* the prop registry in consecutive slices of MaxBatch sorted keys.
BatchSlices(s) ==
    IF s = "surface" THEN {SortedSurfaceKeys}
    ELSE {SubSeq(SortedPropKeys, lo, Min(lo + MaxBatch - 1, Len(SortedPropKeys))) :
            lo \in {i \in 1..Len(SortedPropKeys) : (i - 1) % MaxBatch = 0}}

\* a command-line argument that names no registered asset
UnknownName == "no-such-asset"
NoArg == "<none>"
Arguments(s) == {NoArg, "all", UnknownName} \cup DOMAIN Registry(s)

(***************************************************************************)
(* Host behaviour the scripts do not determine.                            *)
(***************************************************************************)
\* what the bevel modifier adds to the mesh: nothing when no edge is hard,
\* or the edge quads and corner triangles of one bevelled box
HostBevel ==
    {[verts |-> 0, faces |-> EmptyBag],
     [verts |-> 16, faces |-> (3 :> 8) @@ (4 :> 12)]}
\* the size in bytes of a written .glb: exactly MAX_GLB_KB and one byte over
HostFileSizes == {MAX_GLB_KB * 1024, MAX_GLB_KB * 1024 + 1}
\* the exception a failing host operator raises
HostError == "RuntimeError"

(***************************************************************************)
(* Objects.                                                                *)
(***************************************************************************)
Identity == "identity"
NewObject(name, mesh, bm) ==
    [name |-> name,
     data |-> [name |-> mesh, verts |-> bm.verts, faces |-> bm.faces, zs |-> bm.zs,
               placed |-> bm.placed,
               materials |-> <<>>, uv |-> FALSE, smooth |-> FALSE],
     modifiers |-> <<>>, selected |-> FALSE,
     transform |-> [location |-> Identity, rotation |-> Identity, scale |-> Identity],
     applied |-> [location |-> FALSE, rotation |-> FALSE, scale |-> FALSE]]

NoObject == NewObject("", "", bmesh_new)

RECURSIVE AppendTimes(_, _, _)
AppendTimes(seq, x, n) == IF n = 0 THEN seq ELSE AppendTimes(Append(seq, x), x, n - 1)

\* the Triangulate modifier: a face of n vertices becomes n - 2 triangles
RECURSIVE SumTris(_, _)
SumTris(faces, arities) ==
    IF arities = {} THEN 0
    ELSE LET a == CHOOSE x \in arities : TRUE
         IN (a - 2) * faces[a] + SumTris(faces, arities \ {a})

Triangulate_KeepsFaces(faces) == faces

Triangulate(faces) == NewFaces(3, SumTris(faces, DOMAIN faces))

\* export_glb: sum(len(p.vertices) - 2 for p in obj.data.polygons)
TriCount(faces) == SumTris(faces, DOMAIN faces)

SetMax(S) == CHOOSE x \in S : \A y \in S : y <= x
SetMin(S) == CHOOSE x \in S : \A y \in S : x <= y
Height(data) == IF data.verts = 0 THEN 0 ELSE SetMax(data.zs) - SetMin(data.zs)

(***************************************************************************)
(* lib/bake.py: the pass lists.                                            *)
(***************************************************************************)
Pass(file, type, colorspace, samples, filter) ==
    [file |-> file, type |-> type, colorspace |-> colorspace, samples |-> samples,
     filter |-> filter]

\* pass_type.lower()
Lower(t) ==
    CASE t = "DIFFUSE" -> "diffuse" [] t = "NORMAL" -> "normal"
      [] t = "ROUGHNESS" -> "roughness" [] t = "AO" -> "ao"

bake_pbr_passes_AlwaysAO(skip_ao) ==
    <<Pass(Lower("DIFFUSE"), "DIFFUSE", "sRGB", BAKE_SAMPLES_FAST, "COLOR"),
      Pass(Lower("NORMAL"), "NORMAL", "Non-Color", BAKE_SAMPLES_FAST, ""),
      Pass(Lower("ROUGHNESS"), "ROUGHNESS", "Non-Color", BAKE_SAMPLES_FAST, ""),
      Pass(Lower("AO"), "AO", "Non-Color", BAKE_SAMPLES_AO, "")>>

bake_pbr_passes(skip_ao) ==
    <<Pass(Lower("DIFFUSE"), "DIFFUSE", "sRGB", BAKE_SAMPLES_FAST, "COLOR"),
      Pass(Lower("NORMAL"), "NORMAL", "Non-Color", BAKE_SAMPLES_FAST, ""),
      Pass(Lower("ROUGHNESS"), "ROUGHNESS", "Non-Color", BAKE_SAMPLES_FAST, "")>>
    \o (IF ~skip_ao THEN <<Pass(Lower("AO"), "AO", "Non-Color", BAKE_SAMPLES_AO, "")>>
        ELSE <<>>)

bake_surface_set_passes ==
    <<Pass("diffuse", "DIFFUSE", "sRGB", BAKE_SAMPLES_FAST, "COLOR"),
      Pass("normal", "NORMAL", "Non-Color", BAKE_SAMPLES_FAST, ""),
      Pass("roughness", "ROUGHNESS", "Non-Color", BAKE_SAMPLES_FAST, ""),
      Pass("ao", "AO", "Non-Color", BAKE_SAMPLES_AO, "")>>

\* bpy.data.images.new(name, size, size)
NewImage(size, colorspace) ==
    [size |-> size, colorspace |-> colorspace, baked |-> "", samples |-> 0]

\* replace_material_with_baked: the rebuilt graph
replace_material_with_baked_KeepsGraph(m, imgs) ==
    LET base == m.next - 1
        hasAO == "AO" \in DOMAIN imgs
        \* node positions in creation order
        output == 1
        principled == 2
        diff_node == 3
        ao_node == 4
        ao_mix == 5
        norm_node == IF hasAO THEN 6 ELSE 4
        normal_map == norm_node + 1
        rough_node == norm_node + 2
        types == <<"ShaderNodeOutputMaterial", "ShaderNodeBsdfPrincipled", "ShaderNodeTexImage">>
                 \o (IF hasAO THEN <<"ShaderNodeTexImage", "ShaderNodeMix">> ELSE <<>>)
                 \o <<"ShaderNodeTexImage", "ShaderNodeNormalMap", "ShaderNodeTexImage">>
        colour == IF hasAO
                  THEN << <<diff_node, "Color", ao_mix, "inputs[6]">>,
                          <<ao_node, "Color", ao_mix, "inputs[7]">>,
                          <<ao_mix, "outputs[2]", principled, "Base Color">> >>
                  ELSE << <<diff_node, "Color", principled, "Base Color">> >>
        ls == << <<principled, "BSDF", output, "Surface">> >> \o colour
              \o << <<norm_node, "Color", normal_map, "Color">>,
                    <<normal_map, "Normal", principled, "Normal">>,
                    <<rough_node, "Color", principled, "Roughness">> >>
        is == << <<principled, "Metallic", 0>> >>
              \o (IF hasAO THEN << <<ao_mix, "Factor", 100>> >> ELSE <<>>)
              \o << <<normal_map, "Strength", 100>> >>
        g1 == SetInputs(NewLinks(NewNodes(m, types), base, ls), base, is)
        g2 == set_image(g1, base + diff_node, imgs["DIFFUSE"])
        g3 == IF hasAO
              THEN set_blend_type(set_image(g2, base + ao_node, imgs["AO"]),
                                  base + ao_mix, "MULTIPLY")
              ELSE g2
        g4 == set_image(g3, base + norm_node, imgs["NORMAL"])
    IN set_image(g4, base + rough_node, imgs["ROUGHNESS"])

replace_material_with_baked(m, imgs) ==
    LET base == m.next - 1
        hasAO == "AO" \in DOMAIN imgs
        \* node positions in creation order
        output == 1
        principled == 2
        diff_node == 3
        ao_node == 4
        ao_mix == 5
        norm_node == IF hasAO THEN 6 ELSE 4
        normal_map == norm_node + 1
        rough_node == norm_node + 2
        types == <<"ShaderNodeOutputMaterial", "ShaderNodeBsdfPrincipled", "ShaderNodeTexImage">>
                 \o (IF hasAO THEN <<"ShaderNodeTexImage", "ShaderNodeMix">> ELSE <<>>)
                 \o <<"ShaderNodeTexImage", "ShaderNodeNormalMap", "ShaderNodeTexImage">>
        colour == IF hasAO
                  THEN << <<diff_node, "Color", ao_mix, "inputs[6]">>,
                          <<ao_node, "Color", ao_mix, "inputs[7]">>,
                          <<ao_mix, "outputs[2]", principled, "Base Color">> >>
                  ELSE << <<diff_node, "Color", principled, "Base Color">> >>
        ls == << <<principled, "BSDF", output, "Surface">> >> \o colour
              \o << <<norm_node, "Color", normal_map, "Color">>,
                    <<normal_map, "Normal", principled, "Normal">>,
                    <<rough_node, "Color", principled, "Roughness">> >>
        is == << <<principled, "Metallic", 0>> >>
              \o (IF hasAO THEN << <<ao_mix, "Factor", 100>> >> ELSE <<>>)
              \o << <<normal_map, "Strength", 100>> >>
        g1 == SetInputs(NewLinks(NewNodes(nodes_clear(m), types), base, ls), base, is)
        g2 == set_image(g1, base + diff_node, imgs["DIFFUSE"])
        g3 == IF hasAO
              THEN set_blend_type(set_image(g2, base + ao_node, imgs["AO"]),
                                  base + ao_mix, "MULTIPLY")
              ELSE g2
        g4 == set_image(g3, base + norm_node, imgs["NORMAL"])
    IN set_image(g4, base + rough_node, imgs["ROUGHNESS"])

OutputPath_SameFile(prop_name) == MODEL_OUTPUT_DIR \o <<"prop.glb">>

\* os.path.join(MODEL_OUTPUT_DIR, f'{prop_name}.glb')
OutputPath(prop_name) == MODEL_OUTPUT_DIR \o <<prop_name \o ".glb">>
\* os.path.join(output_dir, f'{filename}.jpg')
TexturePath(output_dir, filename) == output_dir \o <<filename \o ".jpg">>

(***************************************************************************)
(* State.                                                                  *)
(***************************************************************************)
VARIABLES
    script,      \* which driver runs: "prop" or "surface"
    arg,         \* args[0] after "--", or NoArg
    batch,       \* the keys the batch loop iterates over
    pc,          \* the statement about to run
    idx,         \* position of the batch loop in batch
    cur,         \* the name generate_single_prop / generate_surface was called with
    results,     \* the batch branch's results dict
    exc,         \* the exception propagating, "" when none
    exitStatus,  \* -1 while running, else the status the process ended with
    data,        \* bpy.data: the names of the objects, materials and meshes
    images,      \* bpy.data.images: name -> image block
    render,      \* scene.render / scene.cycles settings
    obj,         \* the object the generator returned
    mat,         \* the node tree of obj.data.materials[0]
    local,       \* locals of the running driver and library call
    files,       \* the file system: path -> size in bytes
    writes,      \* every path written, in order
    trace,       \* the stages completed for cur, in order
    procNodes,   \* identities of the nodes the material had before the rebind
    calls,       \* the names the driver was invoked with, in order
    ended,       \* how each driver call ended: <<name, "returned" or "raised">>
    out,         \* what was printed, as <<tag, name>> pairs
    report       \* the totals and the error list the batch summary printed

vars == <<script, arg, batch, pc, idx, cur, results, exc, exitStatus, data, images,
          render, obj, mat, local, files, writes, trace, procNodes, calls, ended, out,
          report>>

inputVars == <<script, arg, batch>>
sceneVars == <<data, images, render, obj, mat>>
fsVars == <<files, writes>>
loopVars == <<idx, results, calls>>

EmptyFn == <<>>
NoData == [objects |-> {}, materials |-> {}, meshes |-> {}]
NoLocal ==
    [skip_ao |-> FALSE, tex_size |-> 0, output_dir |-> <<>>, passes |-> <<>>,
     baked |-> EmptyFn, img |-> NoImage, img_node |-> 0, file_size |-> 0,
     written |-> <<>>, meta |-> EmptyFn]

Init ==
    /\ script \in {"prop", "surface"}
    /\ arg \in Arguments(script)
    /\ batch \in (IF arg = "all" THEN BatchSlices(script) ELSE {<<>>})
    /\ pc = "main"
    /\ idx = 1
    /\ cur = ""
    /\ results = EmptyFn
    /\ exc = ""
    /\ exitStatus = -1
    /\ data = NoData
    /\ images = EmptyFn
    /\ render = [engine |-> "EEVEE", device |-> "", samples |-> 0, quality |-> 0]
    /\ obj = NoObject
    /\ mat = NoMaterial
    /\ local = NoLocal
    /\ files = EmptyFn
    /\ writes = <<>>
    /\ trace = <<>>
    /\ procNodes = {}
    /\ calls = <<>>
    /\ ended = <<>>
    /\ out = <<>>
    /\ report = EmptyFn

Say(tag, name) == out' = Append(out, <<tag, name>>)

(***************************************************************************)
(* The command-line entry points (the __main__ blocks).                    *)
(***************************************************************************)
\* no argument: usage, registry, sys.exit(1)
MainUsage ==
    /\ pc = "main" /\ arg = NoArg
    /\ out' = out \o << <<"Usage", "">>, <<"Available", "">> >>
    /\ exitStatus' = 1
    /\ pc' = "exited"
    /\ UNCHANGED <<inputVars, sceneVars, fsVars, loopVars, cur, exc, local, trace, procNodes>>
    /\ UNCHANGED ended
    /\ UNCHANGED report

\* 'all': results = {} and the for loop is entered
MainBatch ==
    /\ pc = "main" /\ arg = "all"
    /\ results' = EmptyFn
    /\ idx' = 1
    /\ pc' = "loop"
    /\ UNCHANGED <<inputVars, sceneVars, fsVars, calls, cur, exc, exitStatus, local, trace,
                   procNodes, out>>
    /\ UNCHANGED ended
    /\ UNCHANGED report

\* any other argument: the driver is called with it
MainSingle ==
    /\ pc = "main" /\ arg \notin {NoArg, "all"}
    /\ cur' = arg
    /\ calls' = Append(calls, arg)
    /\ trace' = <<>>
    /\ pc' = "check"
    /\ UNCHANGED <<inputVars, sceneVars, fsVars, idx, results, exc, exitStatus, local,
                   procNodes, out>>
    /\ UNCHANGED ended
    /\ UNCHANGED report

\* the head of the for loop: the next key, or the code after the loop
LoopNext ==
    /\ pc = "loop" /\ idx <= Len(batch)
    /\ cur' = batch[idx]
    /\ calls' = Append(calls, batch[idx])
    /\ trace' = <<>>
    /\ local' = NoLocal
    /\ procNodes' = {}
    /\ pc' = "check"
    /\ UNCHANGED <<inputVars, sceneVars, fsVars, idx, results, exc, exitStatus, out>>
    /\ UNCHANGED ended
    /\ UNCHANGED report

LoopEnd ==
    /\ pc = "loop" /\ idx > Len(batch)
    /\ pc' = "summary"
    /\ UNCHANGED <<inputVars, sceneVars, fsVars, loopVars, cur, exc, exitStatus, local, trace,
                   procNodes, out>>
    /\ UNCHANGED ended
    /\ UNCHANGED report

\* results[name] = generate_single_prop(name); the surface loop drops the value
LoopStore ==
    /\ pc = "return" /\ arg = "all"
    /\ results' = IF script = "prop"
                  THEN [n \in DOMAIN results \cup {cur} |->
                           IF n = cur THEN local.meta ELSE results[n]]
                  ELSE results
    /\ idx' = idx + 1
    /\ pc' = "loop"
    /\ UNCHANGED <<inputVars, sceneVars, fsVars, calls, cur, exc, exitStatus, local, trace,
                   procNodes, out>>
    /\ UNCHANGED ended
    /\ UNCHANGED report

\* the handler recording the triangles built so far with the error
LoopCatch_CountsPartial ==
    /\ pc = "raised" /\ arg = "all"
    /\ Say("FAILED", cur)
    /\ results' = IF script = "prop"
                  THEN [n \in DOMAIN results \cup {cur} |->
                           IF n = cur
                           THEN [error |-> exc, tri_count |-> TriCount(obj.data.faces)]
                           ELSE results[n]]
                  ELSE results
    /\ exc' = ""
    /\ idx' = idx + 1
    /\ pc' = "loop"
    /\ UNCHANGED <<inputVars, sceneVars, fsVars, calls, cur, exitStatus, local, trace, procNodes>>
    /\ UNCHANGED ended
    /\ UNCHANGED report

\* the handler leaving the loop after the first failure
LoopCatch_Abort ==
    /\ pc = "raised" /\ arg = "all"
    /\ Say("FAILED", cur)
    /\ results' = IF script = "prop"
                  THEN [n \in DOMAIN results \cup {cur} |->
                           IF n = cur THEN [error |-> exc] ELSE results[n]]
                  ELSE results
    /\ exc' = ""
    /\ idx' = idx + 1
    /\ pc' = "summary"
    /\ UNCHANGED <<inputVars, sceneVars, fsVars, calls, cur, exitStatus, local, trace,
                   procNodes, ended>>
    /\ UNCHANGED report

\* the handler with the results assignment left out
LoopCatch_NoRecord ==
    /\ pc = "raised" /\ arg = "all"
    /\ Say("FAILED", cur)
    /\ exc' = ""
    /\ idx' = idx + 1
    /\ pc' = "loop"
    /\ UNCHANGED <<inputVars, sceneVars, fsVars, results, calls, cur, exitStatus, local, trace,
                   procNodes, ended>>
    /\ UNCHANGED report

\* except Exception as e: print, results[name] = {'error': str(e)}
LoopCatch ==
    /\ pc = "raised" /\ arg = "all"
    /\ Say("FAILED", cur)
    /\ results' = IF script = "prop"
                  THEN [n \in DOMAIN results \cup {cur} |->
                           IF n = cur THEN [error |-> exc] ELSE results[n]]
                  ELSE results
    /\ exc' = ""
    /\ idx' = idx + 1
    /\ pc' = "loop"
    /\ UNCHANGED <<inputVars, sceneVars, fsVars, calls, cur, exitStatus, local, trace, procNodes>>
    /\ UNCHANGED ended
    /\ UNCHANGED report

\* r.get(key, 0) summed over results.values()
RECURSIVE SumOver(_, _, _)
SumOver(res, key, names) ==
    IF names = {} THEN 0
    ELSE LET n == CHOOSE x \in names : TRUE
         IN (IF key \in DOMAIN res[n] THEN res[n][key] ELSE 0) + SumOver(res, key, names \ {n})

TotalTris(res) == SumOver(res, "tri_count", DOMAIN res)
TotalKb(res) == SumOver(res, "file_size_kb", DOMAIN res)
\* [n for n, r in results.items() if 'error' in r]: a dict iterates in the
\* order of insertion, which is the order of the loop
Errors(res, names) ==
    SelectSeq(names, LAMBDA n : n \in DOMAIN res /\ "error" \in DOMAIN res[n])

Summary_ExitsOnErrors ==
    /\ pc = "summary"
    /\ out' = out \o << <<IF script = "prop" THEN "BATCH COMPLETE"
                            ELSE "All surface textures generated", "">> >>
              \o (IF script = "prop" /\ Errors(results, batch) # <<>>
                  THEN << <<"ERRORS", "">> >> ELSE <<>>)
    /\ report' = IF script = "prop"
                 THEN [total_tris |-> TotalTris(results), total_kb |-> TotalKb(results),
                       errors |-> Errors(results, batch)]
                 ELSE report
    /\ exitStatus' = IF \E i \in 1..Len(ended) : ended[i][2] = "raised" THEN 1 ELSE 0
    /\ pc' = "exited"
    /\ UNCHANGED <<inputVars, sceneVars, fsVars, loopVars, cur, exc, local, trace, procNodes>>
    /\ UNCHANGED ended

\* the code after the loop; the script then ends
Summary ==
    /\ pc = "summary"
    /\ out' = out \o << <<IF script = "prop" THEN "BATCH COMPLETE"
                            ELSE "All surface textures generated", "">> >>
              \o (IF script = "prop" /\ Errors(results, batch) # <<>>
                  THEN << <<"ERRORS", "">> >> ELSE <<>>)
    /\ report' = IF script = "prop"
                 THEN [total_tris |-> TotalTris(results), total_kb |-> TotalKb(results),
                       errors |-> Errors(results, batch)]
                 ELSE report
    /\ exitStatus' = 0
    /\ pc' = "exited"
    /\ UNCHANGED <<inputVars, sceneVars, fsVars, loopVars, cur, exc, local, trace, procNodes>>
    /\ UNCHANGED ended

\* the single branch: the driver returned, the script ends
SingleDone ==
    /\ pc = "return" /\ arg # "all"
    /\ exitStatus' = 0
    /\ pc' = "exited"
    /\ UNCHANGED <<inputVars, sceneVars, fsVars, loopVars, cur, exc, local, trace, procNodes, out>>
    /\ UNCHANGED ended
    /\ UNCHANGED report

SingleUncaught_RemovesOutput ==
    /\ pc = "raised" /\ arg # "all"
    /\ pc' = "crashed"
    /\ files' = [p \in DOMAIN files \ {OutputPath(cur)} |-> files[p]]
    /\ UNCHANGED <<inputVars, sceneVars, writes, loopVars, cur, exc, exitStatus, local, trace,
                   procNodes, out>>
    /\ UNCHANGED ended
    /\ UNCHANGED report

\* the single branch: nothing catches the exception
SingleUncaught ==
    /\ pc = "raised" /\ arg # "all"
    /\ pc' = "crashed"
    /\ UNCHANGED <<inputVars, sceneVars, fsVars, loopVars, cur, exc, exitStatus, local, trace,
                   procNodes, out>>
    /\ UNCHANGED ended
    /\ UNCHANGED report

(***************************************************************************)
(* generate_single_prop / generate_surface: from the registry check to the *)
(* generator call.                                                         *)
(***************************************************************************)
Done(stage) == trace' = Append(trace, stage)
\* the running driver call returns or raises
Ends(how) == ended' = Append(ended, <<cur, how>>)

UnknownName_ExitAfterReset ==
    /\ pc = "check" /\ cur \notin DOMAIN Registry(script)
    /\ out' = out \o << <<"ERROR: Unknown", cur>>, <<"Available", "">> >>
    /\ exitStatus' = 1
    /\ pc' = "exited"
    /\ Done("clean_scene")
    /\ UNCHANGED <<inputVars, sceneVars, fsVars, loopVars, cur, exc, local, procNodes>>
    /\ UNCHANGED ended
    /\ UNCHANGED report

\* the name is not registered: print the registry and sys.exit(1)
UnknownName_Exit ==
    /\ pc = "check" /\ cur \notin DOMAIN Registry(script)
    /\ out' = out \o << <<"ERROR: Unknown", cur>>, <<"Available", "">> >>
    /\ exitStatus' = 1
    /\ pc' = "exited"
    /\ UNCHANGED <<inputVars, sceneVars, fsVars, loopVars, cur, exc, local, trace, procNodes>>
    /\ UNCHANGED ended
    /\ UNCHANGED report

\* the name is registered: the run starts
CheckName ==
    /\ pc = "check" /\ cur \in DOMAIN Registry(script)
    /\ Say("Generating", cur)
    /\ pc' = "clean_scene"
    /\ UNCHANGED <<inputVars, sceneVars, fsVars, loopVars, cur, exc, exitStatus, local, trace,
                   procNodes>>
    /\ UNCHANGED ended
    /\ UNCHANGED report

clean_scene_KeepsImages ==
    /\ pc = "clean_scene"
    /\ data' = NoData
    /\ obj' = NoObject
    /\ mat' = NoMaterial
    /\ Done("clean_scene")
    /\ pc' = "generator"
    /\ UNCHANGED <<inputVars, fsVars, loopVars, images, render, cur, exc, exitStatus, local,
                   procNodes, out>>
    /\ UNCHANGED ended
    /\ UNCHANGED report

\* lib/mesh_ops.py clean_scene: every object, material, mesh and image goes
clean_scene ==
    /\ pc = "clean_scene"
    /\ data' = NoData
    /\ images' = EmptyFn
    /\ obj' = NoObject
    /\ mat' = NoMaterial
    /\ Done("clean_scene")
    /\ pc' = "generator"
    /\ UNCHANGED <<inputVars, fsVars, loopVars, render, cur, exc, exitStatus, local, procNodes, out>>
    /\ UNCHANGED ended
    /\ UNCHANGED report

Generated_NoMaterial(g, bm) == NewObject(g.obj, g.mesh, bm)

\* the object a generator leaves in the scene
Generated(g, bm) ==
    LET o == NewObject(g.obj, g.mesh, bm)
    IN [o EXCEPT !.data.materials = AppendTimes(<<>>, g.material.name, g.appends)]

CallPropGenerator_SharedBMesh ==
    /\ pc = "generator" /\ script = "prop"
    /\ LET g == PROP_REGISTRY[cur]
           result == g.ret
           o == Generated(g, BuildMesh([bmesh_new EXCEPT !.verts = 8 * Len(ended)], g.placements))
       IN /\ obj' = [o EXCEPT !.selected = TRUE]
          /\ mat' = MakeMaterial(g.material)
          /\ data' = [objects |-> data.objects \cup {g.obj},
                      materials |-> data.materials \cup {g.material.name},
                      meshes |-> data.meshes \cup {g.mesh}]
          /\ local' = [local EXCEPT !.skip_ao = IF Len(result) = 3 THEN result[3] ELSE FALSE,
                                    !.tex_size = result[2]]
    /\ Done("generator")
    /\ pc' = "add_bevel"
    /\ UNCHANGED <<inputVars, fsVars, loopVars, images, render, cur, exc, exitStatus,
                   procNodes, out>>
    /\ UNCHANGED ended
    /\ UNCHANGED report

\* PROP_REGISTRY[prop_name](), the unpacking of its result and the selection
\* of the object
CallPropGenerator_DropsSkipFlag ==
    /\ pc = "generator" /\ script = "prop"
    /\ LET g == PROP_REGISTRY[cur]
           result == g.ret
           o == Generated(g, BuildMesh(bmesh_new, g.placements))
       IN /\ obj' = [o EXCEPT !.selected = TRUE]
          /\ mat' = MakeMaterial(g.material)
          /\ data' = [objects |-> data.objects \cup {g.obj},
                      materials |-> data.materials \cup {g.material.name},
                      meshes |-> data.meshes \cup {g.mesh}]
          /\ local' = [local EXCEPT !.skip_ao = FALSE,
                                    !.tex_size = result[2]]
    /\ Done("generator")
    /\ pc' = "add_bevel"
    /\ UNCHANGED <<inputVars, fsVars, loopVars, images, render, cur, exc, exitStatus,
                   procNodes, out>>
    /\ UNCHANGED ended
    /\ UNCHANGED report

CallPropGenerator ==
    /\ pc = "generator" /\ script = "prop"
    /\ LET g == PROP_REGISTRY[cur]
           result == g.ret
           o == Generated(g, BuildMesh(bmesh_new, g.placements))
       IN /\ obj' = [o EXCEPT !.selected = TRUE]
          /\ mat' = MakeMaterial(g.material)
          /\ data' = [objects |-> data.objects \cup {g.obj},
                      materials |-> data.materials \cup {g.material.name},
                      meshes |-> data.meshes \cup {g.mesh}]
          /\ local' = [local EXCEPT !.skip_ao = IF Len(result) = 3 THEN result[3] ELSE FALSE,
                                    !.tex_size = result[2]]
    /\ Done("generator")
    /\ pc' = "add_bevel"
    /\ UNCHANGED <<inputVars, fsVars, loopVars, images, render, cur, exc, exitStatus,
                   procNodes, out>>
    /\ UNCHANGED ended
    /\ UNCHANGED report

\* obj, output_dir = SURFACE_REGISTRY[name]()
CallSurfaceGenerator ==
    /\ pc = "generator" /\ script = "surface"
    /\ LET g == SURFACE_REGISTRY[cur]
       IN /\ obj' = Generated(g, create_bake_plane)
          /\ mat' = MakeMaterial(g.material)
          /\ data' = [objects |-> data.objects \cup {g.obj},
                      materials |-> data.materials \cup {g.material.name},
                      meshes |-> data.meshes \cup {g.mesh}]
          /\ local' = [local EXCEPT !.output_dir = g.ret[2], !.tex_size = TEX_SURFACE]
    /\ Done("generator")
    /\ pc' = "surface_setup"
    /\ UNCHANGED <<inputVars, fsVars, loopVars, images, render, cur, exc, exitStatus,
                   procNodes, out>>
    /\ UNCHANGED ended
    /\ UNCHANGED report

(***************************************************************************)
(* generate_single_prop: bevel, smooth, weld, unwrap.                      *)
(***************************************************************************)
\* add_bevel(obj, width=0.015, segments=1): the modifier is added and applied
add_bevel ==
    /\ pc = "add_bevel"
    /\ \E b \in HostBevel :
          obj' = [obj EXCEPT !.data.verts = @ + b.verts, !.data.faces = @ (+) b.faces]
    /\ Done("add_bevel")
    /\ pc' = "smooth_shade"
    /\ UNCHANGED <<inputVars, fsVars, loopVars, data, images, render, mat, cur, exc, exitStatus,
                   local, procNodes, out>>
    /\ UNCHANGED ended
    /\ UNCHANGED report

smooth_shade_SkipsWeld ==
    /\ pc = "smooth_shade"
    /\ obj' = [obj EXCEPT !.selected = TRUE, !.data.smooth = TRUE]
    /\ Done("smooth_shade")
    /\ pc' = "smart_uv_unwrap"
    /\ UNCHANGED <<inputVars, fsVars, loopVars, data, images, render, mat, cur, exc, exitStatus,
                   local, procNodes, out>>
    /\ UNCHANGED ended
    /\ UNCHANGED report

smooth_shade ==
    /\ pc = "smooth_shade"
    /\ obj' = [obj EXCEPT !.selected = TRUE, !.data.smooth = TRUE]
    /\ Done("smooth_shade")
    /\ pc' = "remove_doubles"
    /\ UNCHANGED <<inputVars, fsVars, loopVars, data, images, render, mat, cur, exc, exitStatus,
                   local, procNodes, out>>
    /\ UNCHANGED ended
    /\ UNCHANGED report

\* remove_doubles(obj): the host merges the vertices closer than the threshold
remove_doubles ==
    /\ pc = "remove_doubles"
    /\ \E merged \in 0..Min(MaxMerged, obj.data.verts) :
          obj' = [obj EXCEPT !.selected = TRUE, !.data.verts = @ - merged]
    /\ Done("remove_doubles")
    /\ pc' = "smart_uv_unwrap"
    /\ UNCHANGED <<inputVars, fsVars, loopVars, data, images, render, mat, cur, exc, exitStatus,
                   local, procNodes, out>>
    /\ UNCHANGED ended
    /\ UNCHANGED report

smart_uv_unwrap ==
    /\ pc = "smart_uv_unwrap"
    /\ obj' = [obj EXCEPT !.selected = TRUE, !.data.uv = TRUE]
    /\ Done("smart_uv_unwrap")
    /\ Say("Baking", cur)
    /\ pc' = "bake_setup"
    /\ UNCHANGED <<inputVars, fsVars, loopVars, data, images, render, mat, cur, exc, exitStatus,
                   local, procNodes>>
    /\ UNCHANGED ended
    /\ UNCHANGED report

(***************************************************************************)
(* lib/bake.py bake_pbr.                                                   *)
(***************************************************************************)
setup_cycles_bake(r) ==
    [r EXCEPT !.engine = "CYCLES", !.device = "CPU", !.samples = BAKE_SAMPLES_FAST]

bake_pbr_setup_LazyMaterial ==
    /\ pc = "bake_setup"
    /\ render' = setup_cycles_bake(render)
    /\ obj' = [obj EXCEPT !.selected = TRUE]
    /\ local' = [local EXCEPT !.baked = EmptyFn,
                              !.passes = bake_pbr_passes(local.skip_ao)]
    /\ pc' = "bake_begin"
    /\ UNCHANGED <<exc, ended>>
    /\ UNCHANGED <<inputVars, fsVars, loopVars, data, images, mat, cur, exitStatus, trace,
                   procNodes, out>>
    /\ UNCHANGED report

\* lines 30-45: renderer setup, mat = obj.data.materials[0] (IndexError when
\* the object has no material), selection, the pass list
bake_pbr_setup ==
    /\ pc = "bake_setup"
    /\ render' = setup_cycles_bake(render)
    /\ IF Len(obj.data.materials) = 0
       THEN /\ exc' = "IndexError"
            /\ Ends("raised")
            /\ pc' = "raised"
            /\ UNCHANGED <<obj, local>>
       ELSE /\ obj' = [obj EXCEPT !.selected = TRUE]
            /\ local' = [local EXCEPT !.baked = EmptyFn,
                                      !.passes = bake_pbr_passes(local.skip_ao)]
            /\ pc' = "bake_begin"
            /\ UNCHANGED <<exc, ended>>
    /\ UNCHANGED <<inputVars, fsVars, loopVars, data, images, mat, cur, exitStatus, trace,
                   procNodes, out>>
    /\ UNCHANGED report

bake_pbr_begin_KeepsSamples ==
    /\ pc = "bake_begin" /\ local.passes # <<>>
    /\ LET p == Head(local.passes)
           name == "bake_" \o p.file
       IN /\ images' = [n \in DOMAIN images \cup {name} |->
                           IF n = name THEN NewImage(local.tex_size, p.colorspace)
                           ELSE images[n]]
          /\ mat' = [set_image(nodes_new(mat, "ShaderNodeTexImage"), mat.next, name)
                       EXCEPT !.active = mat.next]
          /\ local' = [local EXCEPT !.img = name, !.img_node = mat.next]
          /\ render' = render
    /\ pc' = "bake_invoke"
    /\ UNCHANGED <<inputVars, fsVars, loopVars, data, obj, cur, exc, exitStatus, trace,
                   procNodes, out>>
    /\ UNCHANGED ended
    /\ UNCHANGED report

\* lines 47-57 for the next pass: the image, the capture node made active,
\* the sample count
bake_pbr_begin ==
    /\ pc = "bake_begin" /\ local.passes # <<>>
    /\ LET p == Head(local.passes)
           name == "bake_" \o p.file
       IN /\ images' = [n \in DOMAIN images \cup {name} |->
                           IF n = name THEN NewImage(local.tex_size, p.colorspace)
                           ELSE images[n]]
          /\ mat' = [set_image(nodes_new(mat, "ShaderNodeTexImage"), mat.next, name)
                       EXCEPT !.active = mat.next]
          /\ local' = [local EXCEPT !.img = name, !.img_node = mat.next]
          /\ render' = [render EXCEPT !.samples = p.samples]
    /\ pc' = "bake_invoke"
    /\ UNCHANGED <<inputVars, fsVars, loopVars, data, obj, cur, exc, exitStatus, trace,
                   procNodes, out>>
    /\ UNCHANGED ended
    /\ UNCHANGED report

bake_pbr_invoke_KeepsNode ==
    /\ pc = "bake_invoke"
    /\ LET p == Head(local.passes)
       IN /\ images' = [images EXCEPT ![local.img].baked = p.type,
                                      ![local.img].samples = render.samples]
          /\ mat' = mat
          /\ local' = [local EXCEPT
                          !.baked = [t \in DOMAIN local.baked \cup {p.type} |->
                                        IF t = p.type THEN local.img ELSE local.baked[t]],
                          !.passes = Tail(local.passes),
                          !.img_node = 0]
          /\ Say("Baked " \o p.type, cur)
    /\ pc' = "bake_begin"
    /\ UNCHANGED <<inputVars, fsVars, loopVars, data, render, obj, cur, exc, exitStatus, trace,
                   procNodes>>
    /\ UNCHANGED ended
    /\ UNCHANGED report

\* lines 59-66: the bake operator completes, the capture node is removed and
\* the image is recorded under its pass
bake_pbr_invoke ==
    /\ pc = "bake_invoke"
    /\ LET p == Head(local.passes)
       IN /\ images' = [images EXCEPT ![local.img].baked = p.type,
                                      ![local.img].samples = render.samples]
          /\ mat' = nodes_remove(mat, local.img_node)
          /\ local' = [local EXCEPT
                          !.baked = [t \in DOMAIN local.baked \cup {p.type} |->
                                        IF t = p.type THEN local.img ELSE local.baked[t]],
                          !.passes = Tail(local.passes),
                          !.img_node = 0]
          /\ Say("Baked " \o p.type, cur)
    /\ pc' = "bake_begin"
    /\ UNCHANGED <<inputVars, fsVars, loopVars, data, render, obj, cur, exc, exitStatus, trace,
                   procNodes>>
    /\ UNCHANGED ended
    /\ UNCHANGED report

\* line 68: return images
bake_pbr_return ==
    /\ pc = "bake_begin" /\ local.passes = <<>>
    /\ Done("bake_pbr")
    /\ pc' = "replace_material"
    /\ UNCHANGED <<inputVars, sceneVars, fsVars, loopVars, cur, exc, exitStatus, local,
                   procNodes, out>>
    /\ UNCHANGED ended
    /\ UNCHANGED report

\* lib/bake.py replace_material_with_baked, applied to obj.data.materials[0]
RebindMaterial ==
    /\ pc = "replace_material"
    /\ procNodes' = {n.id : n \in mat.nodes}
    /\ mat' = replace_material_with_baked(mat, local.baked)
    /\ images' = [n \in DOMAIN images |->
                    IF \E t \in DOMAIN local.baked \cap {"AO", "NORMAL", "ROUGHNESS"} :
                          local.baked[t] = n
                    THEN [images[n] EXCEPT !.colorspace = "Non-Color"]
                    ELSE images[n]]
    /\ Done("replace_material_with_baked")
    /\ pc' = "triangulate"
    /\ UNCHANGED <<inputVars, fsVars, loopVars, data, render, obj, cur, exc, exitStatus, local,
                   out>>
    /\ UNCHANGED ended
    /\ UNCHANGED report

(***************************************************************************)
(* lib/export.py                                                           *)
(***************************************************************************)
\* prepare_for_export, lines 9-14: select, add and apply the Triangulate modifier
prepare_triangulate ==
    /\ pc = "triangulate"
    /\ obj' = [obj EXCEPT !.selected = TRUE, !.data.faces = Triangulate(@)]
    /\ Done("triangulate")
    /\ pc' = "transform_apply"
    /\ UNCHANGED <<inputVars, fsVars, loopVars, data, images, render, mat, cur, exc, exitStatus,
                   local, procNodes, out>>
    /\ UNCHANGED ended
    /\ UNCHANGED report

\* transform_apply(location, rotation, scale): the chosen channels are baked
\* into the vertex data and reset
transform_apply(o, location, rotation, scale) ==
    [o EXCEPT !.applied = [location |-> location, rotation |-> rotation, scale |-> scale],
              !.transform = [location |-> IF location THEN Identity ELSE @.location,
                             rotation |-> IF rotation THEN Identity ELSE @.rotation,
                             scale |-> IF scale THEN Identity ELSE @.scale]]

\* prepare_for_export, line 17
prepare_transform ==
    /\ pc = "transform_apply"
    /\ obj' = transform_apply(obj, FALSE, TRUE, TRUE)
    /\ Done("transform_apply")
    /\ pc' = "export"
    /\ UNCHANGED <<inputVars, fsVars, loopVars, data, images, render, mat, cur, exc, exitStatus,
                   local, procNodes, out>>
    /\ UNCHANGED ended
    /\ UNCHANGED report

\* export_glb, lines 31-47: the exporter writes the file
export_write ==
    /\ pc = "export"
    /\ \E size \in HostFileSizes :
          LET path == OutputPath(cur)
          IN /\ files' = [p \in DOMAIN files \cup {path} |-> IF p = path THEN size ELSE files[p]]
             /\ writes' = Append(writes, path)
             /\ local' = [local EXCEPT !.file_size = size, !.written = Append(@, path)]
    /\ obj' = [obj EXCEPT !.selected = TRUE]
    /\ pc' = "export_meta"
    /\ UNCHANGED <<inputVars, loopVars, data, images, render, mat, cur, exc, exitStatus, trace,
                   procNodes, out>>
    /\ UNCHANGED ended
    /\ UNCHANGED report

export_meta_WarnsAtBudget ==
    /\ pc = "export_meta"
    /\ LET file_size_kb == files[OutputPath(cur)]
       IN /\ local' = [local EXCEPT !.meta = [file_size_kb |-> file_size_kb,
                                              tri_count |-> TriCount(obj.data.faces),
                                              height |-> Height(obj.data)]]
          /\ out' = out \o (IF file_size_kb >= MAX_GLB_KB * 1024
                            THEN << <<"WARNING: GLB exceeds budget", cur>> >> ELSE <<>>)
                        \o << <<"Done", cur>> >>
    /\ Done("export_glb")
    /\ Ends("returned")
    /\ pc' = "return"
    /\ UNCHANGED <<inputVars, sceneVars, fsVars, loopVars, cur, exc, exitStatus, procNodes>>
    /\ UNCHANGED report

export_meta_ChecksTriangles ==
    /\ pc = "export_meta"
    /\ LET file_size_kb == files[OutputPath(cur)]
       IN /\ local' = [local EXCEPT !.meta = [file_size_kb |-> file_size_kb,
                                              tri_count |-> TriCount(obj.data.faces),
                                              height |-> Height(obj.data)]]
          /\ out' = out \o (IF file_size_kb > MAX_GLB_KB * 1024
                            THEN << <<"WARNING: GLB exceeds budget", cur>> >> ELSE <<>>)
                        \o (IF TriCount(obj.data.faces) > BUDGET_SMALL
                            THEN << <<"WARNING: triangle budget", cur>> >> ELSE <<>>)
                        \o << <<"Done", cur>> >>
    /\ Done("export_glb")
    /\ Ends("returned")
    /\ pc' = "return"
    /\ UNCHANGED <<inputVars, sceneVars, fsVars, loopVars, cur, exc, exitStatus, procNodes>>
    /\ UNCHANGED report

\* export_glb, lines 47-65: the metadata and the budget warning.  file_size_kb
\* is carried in bytes, so the comparison is against MAX_GLB_KB * 1024
export_meta ==
    /\ pc = "export_meta"
    /\ LET file_size_kb == files[OutputPath(cur)]
       IN /\ local' = [local EXCEPT !.meta = [file_size_kb |-> file_size_kb,
                                              tri_count |-> TriCount(obj.data.faces),
                                              height |-> Height(obj.data)]]
          /\ out' = out \o (IF file_size_kb > MAX_GLB_KB * 1024
                            THEN << <<"WARNING: GLB exceeds budget", cur>> >> ELSE <<>>)
                        \o << <<"Done", cur>> >>
    /\ Done("export_glb")
    /\ Ends("returned")
    /\ pc' = "return"
    /\ UNCHANGED <<inputVars, sceneVars, fsVars, loopVars, cur, exc, exitStatus, procNodes>>
    /\ UNCHANGED report

(***************************************************************************)
(* generate_surface_textures.py bake_surface_set.                          *)
(***************************************************************************)
\* size in bytes of a saved JPEG; the scripts never read it
HostJpegSize == 1

\* lines 44-59: renderer setup, mat = obj.data.materials[0], selection,
\* os.makedirs, the pass list
bake_surface_set_setup ==
    /\ pc = "surface_setup"
    /\ render' = setup_cycles_bake(render)
    /\ IF Len(obj.data.materials) = 0
       THEN /\ exc' = "IndexError"
            /\ Ends("raised")
            /\ pc' = "raised"
            /\ UNCHANGED <<obj, local>>
       ELSE /\ obj' = [obj EXCEPT !.selected = TRUE]
            /\ local' = [local EXCEPT !.passes = bake_surface_set_passes]
            /\ pc' = "surface_begin"
            /\ UNCHANGED <<exc, ended>>
    /\ UNCHANGED <<inputVars, fsVars, loopVars, data, images, mat, cur, exitStatus, trace,
                   procNodes, out>>
    /\ UNCHANGED report

\* lines 61-71 for the next pass
bake_surface_set_begin ==
    /\ pc = "surface_begin" /\ local.passes # <<>>
    /\ LET p == Head(local.passes)
           name == "bake_" \o p.file
       IN /\ images' = [n \in DOMAIN images \cup {name} |->
                           IF n = name THEN NewImage(local.tex_size, p.colorspace)
                           ELSE images[n]]
          /\ mat' = [set_image(nodes_new(mat, "ShaderNodeTexImage"), mat.next, name)
                       EXCEPT !.active = mat.next]
          /\ local' = [local EXCEPT !.img = name, !.img_node = mat.next]
          /\ render' = [render EXCEPT !.samples = p.samples]
    /\ pc' = "surface_invoke"
    /\ UNCHANGED <<inputVars, fsVars, loopVars, data, obj, cur, exc, exitStatus, trace,
                   procNodes, out>>
    /\ UNCHANGED ended
    /\ UNCHANGED report

\* lines 73-78: the bake operator completes and the capture node is removed
bake_surface_set_invoke ==
    /\ pc = "surface_invoke"
    /\ images' = [images EXCEPT ![local.img].baked = Head(local.passes).type,
                                ![local.img].samples = render.samples]
    /\ mat' = nodes_remove(mat, local.img_node)
    /\ local' = [local EXCEPT !.img_node = 0]
    /\ pc' = "surface_save"
    /\ UNCHANGED <<inputVars, fsVars, loopVars, data, render, obj, cur, exc, exitStatus, trace,
                   procNodes, out>>
    /\ UNCHANGED ended
    /\ UNCHANGED report

bake_surface_set_save_KeepsImage ==
    /\ pc = "surface_save"
    /\ LET p == Head(local.passes)
           path == TexturePath(local.output_dir, p.file)
       IN /\ files' = [q \in DOMAIN files \cup {path} |->
                          IF q = path THEN HostJpegSize ELSE files[q]]
          /\ writes' = Append(writes, path)
          /\ Say("Saved " \o p.file \o ".jpg", cur)
    /\ render' = [render EXCEPT !.quality = 90]
    /\ images' = images
    /\ local' = [local EXCEPT !.passes = Tail(local.passes), !.img = NoImage,
                              !.written = Append(@, TexturePath(local.output_dir,
                                                                Head(local.passes).file))]
    /\ pc' = "surface_begin"
    /\ UNCHANGED <<inputVars, loopVars, data, obj, mat, cur, exc, exitStatus, trace, procNodes>>
    /\ UNCHANGED ended
    /\ UNCHANGED report

\* lines 80-88: the image is saved as <filename>.jpg and removed from the scene
bake_surface_set_save ==
    /\ pc = "surface_save"
    /\ LET p == Head(local.passes)
           path == TexturePath(local.output_dir, p.file)
       IN /\ files' = [q \in DOMAIN files \cup {path} |->
                          IF q = path THEN HostJpegSize ELSE files[q]]
          /\ writes' = Append(writes, path)
          /\ Say("Saved " \o p.file \o ".jpg", cur)
    /\ render' = [render EXCEPT !.quality = 90]
    /\ images' = [n \in DOMAIN images \ {local.img} |-> images[n]]
    /\ local' = [local EXCEPT !.passes = Tail(local.passes), !.img = NoImage,
                              !.written = Append(@, TexturePath(local.output_dir,
                                                                Head(local.passes).file))]
    /\ pc' = "surface_begin"
    /\ UNCHANGED <<inputVars, loopVars, data, obj, mat, cur, exc, exitStatus, trace, procNodes>>
    /\ UNCHANGED ended
    /\ UNCHANGED report

\* the pass loop is over: bake_surface_set returns, generate_surface prints
\* and returns output_dir
bake_surface_set_return ==
    /\ pc = "surface_begin" /\ local.passes = <<>>
    /\ Done("bake_surface_set")
    /\ Say("Done", cur)
    /\ Ends("returned")
    /\ pc' = "return"
    /\ UNCHANGED <<inputVars, sceneVars, fsVars, loopVars, cur, exc, exitStatus, local,
                   procNodes>>
    /\ UNCHANGED report

(***************************************************************************)
(* Failures of the host.                                                   *)
(***************************************************************************)
\* the statements at which a host call can raise, leaving the state as the
\* preceding statements made it
HostStages ==
    {"clean_scene", "generator", "add_bevel", "smooth_shade", "remove_doubles",
     "smart_uv_unwrap", "bake_invoke", "replace_material", "triangulate",
     "transform_apply", "export", "surface_invoke", "surface_save"}

HostRaises ==
    /\ pc \in HostStages
    /\ exc' = HostError
    /\ Ends("raised")
    /\ pc' = "raised"
    /\ UNCHANGED <<inputVars, sceneVars, fsVars, loopVars, cur, exitStatus, local, trace,
                   procNodes, out>>
    /\ UNCHANGED report

\* the exporter raises after it has begun to write the file
ExportRaisesPartway ==
    /\ pc = "export"
    /\ LET path == OutputPath(cur)
       IN /\ files' = [p \in DOMAIN files \cup {path} |-> IF p = path THEN 0 ELSE files[p]]
          /\ writes' = Append(writes, path)
          /\ local' = [local EXCEPT !.written = Append(@, path)]
    /\ exc' = HostError
    /\ Ends("raised")
    /\ pc' = "raised"
    /\ UNCHANGED <<inputVars, sceneVars, loopVars, cur, exitStatus, trace, procNodes, out>>
    /\ UNCHANGED report

Next ==
    \/ MainUsage \/ MainBatch \/ MainSingle
    \/ LoopNext \/ LoopEnd \/ LoopStore \/ LoopCatch \/ Summary
    \/ SingleDone \/ SingleUncaught
    \/ UnknownName_Exit \/ CheckName \/ clean_scene
    \/ CallPropGenerator \/ CallSurfaceGenerator
    \/ add_bevel \/ smooth_shade \/ remove_doubles \/ smart_uv_unwrap
    \/ bake_pbr_setup \/ bake_pbr_begin \/ bake_pbr_invoke \/ bake_pbr_return
    \/ RebindMaterial \/ prepare_triangulate \/ prepare_transform
    \/ export_write \/ export_meta
    \/ bake_surface_set_setup \/ bake_surface_set_begin \/ bake_surface_set_invoke
    \/ bake_surface_set_save \/ bake_surface_set_return
    \/ HostRaises \/ ExportRaisesPartway

Spec == Init /\ [][Next]_vars

\* the interpreter runs the script to its end: a statement that can run does
FairSpec == Spec /\ WF_vars(Next)

(***************************************************************************)
(* lib/bake.py bake_pbr as a library function, called on an object the     *)
(* caller supplies: one a generator made, with its material or with the    *)
(* material slots left empty.                                              *)
(***************************************************************************)
BakeInputs == {"stool", "floor-crack", "goblet", "iron-brazier"}
BakeSizes == {TEX_PROP_SMALL, TEX_PROP_LARGE, TEX_SURFACE}

\* the arguments obj, tex_size and skip_ao of one call
BakeInit ==
    /\ script = "prop"
    /\ arg \in BakeInputs
    /\ batch = <<>>
    /\ pc = "bake_setup"
    /\ idx = 1
    /\ cur = arg
    /\ results = EmptyFn
    /\ exc = ""
    /\ exitStatus = -1
    /\ images = EmptyFn
    /\ render = [engine |-> "EEVEE", device |-> "", samples |-> 0, quality |-> 0]
    /\ \E has_material \in BOOLEAN :
          LET g == PROP_REGISTRY[arg]
              o == Generated(g, BuildMesh(bmesh_new, g.placements))
          IN /\ obj = [o EXCEPT !.data.uv = TRUE,
                                !.data.materials = IF has_material THEN @ ELSE <<>>]
             /\ mat = IF has_material THEN MakeMaterial(g.material) ELSE NoMaterial
             /\ data = [objects |-> {g.obj},
                        materials |-> IF has_material THEN {g.material.name} ELSE {},
                        meshes |-> {g.mesh}]
    /\ \E tex_size \in BakeSizes, skip_ao \in BOOLEAN :
          local = [NoLocal EXCEPT !.tex_size = tex_size, !.skip_ao = skip_ao]
    /\ files = EmptyFn
    /\ writes = <<>>
    /\ trace = <<>>
    /\ procNodes = {}
    /\ calls = <<arg>>
    /\ ended = <<>>
    /\ out = <<>>
    /\ report = EmptyFn

\* bpy.ops.object.bake raises
BakeRaises == pc = "bake_invoke" /\ HostRaises

BakeNext ==
    \/ bake_pbr_setup \/ bake_pbr_begin \/ bake_pbr_invoke \/ bake_pbr_return
    \/ BakeRaises

BakeSpec == BakeInit /\ [][BakeNext]_vars

(***************************************************************************)
(* lib/mesh_ops.py create_box and create_cylinder_section on their own: a  *)
(* caller makes up to MaxPlacements calls on one BMesh, also the same call *)
(* more than once.                                                         *)
(***************************************************************************)
MeshInit ==
    /\ script = "prop"
    /\ arg = NoArg
    /\ batch = <<>>
    /\ pc = "mesh"
    /\ idx = 1
    /\ cur = ""
    /\ results = EmptyFn
    /\ exc = ""
    /\ exitStatus = -1
    /\ data = NoData
    /\ images = EmptyFn
    /\ render = [engine |-> "EEVEE", device |-> "", samples |-> 0, quality |-> 0]
    /\ obj = NoObject
    /\ mat = NoMaterial
    /\ local = NoLocal
    /\ files = EmptyFn
    /\ writes = <<>>
    /\ trace = <<>>
    /\ procNodes = {}
    /\ calls = <<>>
    /\ ended = <<>>
    /\ out = <<>>
    /\ report = EmptyFn

\* one call of create_box or create_cylinder_section on the mesh
MeshPlace ==
    /\ pc = "mesh"
    /\ Len(obj.data.placed) < MaxPlacements
    /\ \E p \in {Box(z, 100) : z \in {0, 100}} \cup {Cyl(n, 0, 100) : n \in {3, 4, 8}} :
          obj' = [obj EXCEPT !.data = Place(@, p)]
    /\ UNCHANGED <<inputVars, fsVars, loopVars, data, images, render, mat, local, pc, cur,
                   exc, exitStatus, trace, procNodes, ended, out, report>>

MeshSpec == MeshInit /\ [][MeshPlace]_vars

(***************************************************************************)
(* The standalone scripts spike_test.py and props/ironwood_column.py: each *)
(* is one module body that builds, bakes and exports a single model        *)
(* without the driver or lib/.  The output file of an earlier run may      *)
(* still be on disk when the script starts.                                *)
(***************************************************************************)
StandaloneInit ==
    /\ script \in {"spike_test", "ironwood_column"}
    /\ arg = NoArg
    /\ batch = <<>>
    /\ pc = "generator"
    /\ idx = 1
    /\ cur = script
    /\ results = EmptyFn
    /\ exc = ""
    /\ exitStatus = -1
    /\ data = NoData
    /\ images = EmptyFn
    /\ render = [engine |-> "EEVEE", device |-> "", samples |-> 0, quality |-> 0]
    /\ obj = NoObject
    /\ mat = NoMaterial
    /\ local = NoLocal
    /\ \E earlier \in {0} \cup HostFileSizes :
          LET path == IF script = "spike_test"
                      THEN <<"public", "assets", "models", "props", "test", "spike-cube.glb">>
                      ELSE MODEL_OUTPUT_DIR \o <<"ironwood-column.glb">>
          IN files = IF earlier = 0 THEN EmptyFn ELSE (path :> earlier)
    /\ writes = <<>>
    /\ trace = <<>>
    /\ procNodes = {}
    /\ calls = <<>>
    /\ ended = <<>>
    /\ out = <<>>
    /\ report = EmptyFn

\* spike_test.py up to the bake helper: the scene is emptied, the host's cube
\* (8 vertices, 6 quads, centred on its origin and placed at z = 0.5) gets
\* the bevel applied and is unwrapped, the stone graph is built and
\* assigned, Cycles is set up
SpikeBuild ==
    /\ pc = "generator" /\ script = "spike_test"
    /\ \E b \in HostBevel :
          LET cube == [bmesh_new EXCEPT !.verts = 8, !.faces = NewFaces(4, 6),
                                        !.zs = {-500, 500}]
              o == NewObject("spike_cube", "Cube", cube)
          IN obj' = [o EXCEPT !.data.verts = @ + b.verts, !.data.faces = @ (+) b.faces,
                              !.data.uv = TRUE, !.data.materials = <<"StoneMaterial">>,
                              !.transform.location = "(0, 0, 0.5)", !.selected = TRUE]
    /\ mat' = BuildGraph("StoneMaterial",
        <<"ShaderNodeOutputMaterial", "ShaderNodeBsdfPrincipled", "ShaderNodeTexCoord",
          "ShaderNodeMapping", "ShaderNodeTexNoise", "ShaderNodeTexVoronoi",
          "ShaderNodeValToRGB", "ShaderNodeMix", "ShaderNodeBump">>,
        << <<2, "BSDF", 1, "Surface">>, <<3, "Object", 4, "Vector">>,
           <<4, "Vector", 5, "Vector">>, <<4, "Vector", 6, "Vector">>,
           <<5, "Fac", 8, "inputs[6]">>, <<6, "Distance", 8, "inputs[7]">>,
           <<8, "outputs[2]", 7, "Fac">>, <<7, "Color", 2, "Base Color">>,
           <<5, "Fac", 9, "Height">>, <<9, "Normal", 2, "Normal">> >>,
        << <<2, "Roughness", 85>>, <<2, "Specular IOR Level", 30>>, <<2, "Metallic", 0>>,
           <<4, "Scale.x", 400>>, <<4, "Scale.y", 400>>, <<4, "Scale.z", 400>>,
           <<5, "Scale", 600>>, <<5, "Detail", 800>>, <<5, "Roughness", 60>>,
           <<6, "Scale", 300>>, <<8, "Factor", 30>>, <<9, "Strength", 30>> >>)
    /\ data' = [objects |-> {"spike_cube"}, materials |-> {"StoneMaterial"},
                meshes |-> {"Cube"}]
    /\ images' = EmptyFn
    /\ render' = [render EXCEPT !.engine = "CYCLES", !.device = "CPU", !.samples = 64]
    /\ local' = [local EXCEPT
                    !.tex_size = 512,
                    !.output_dir = <<"public", "assets", "models", "props", "test">>,
                    !.passes = <<Pass("spike-cube_diffuse.png", "DIFFUSE", "sRGB", NotPassed, "COLOR"),
                                 Pass("spike-cube_normal.png", "NORMAL", "Non-Color", 1, ""),
                                 Pass("spike-cube_roughness.png", "ROUGHNESS", "Non-Color", 1, ""),
                                 Pass("spike-cube_ao.png", "AO", "Non-Color", 64, "")>>]
    /\ trace' = trace \o <<"clean_scene", "primitive_cube_add", "bevel", "smart_project">>
    /\ out' = out \o << <<"Output", cur>>, <<"Baking PBR textures", cur>> >>
    /\ pc' = "bake_invoke"
    /\ UNCHANGED <<inputVars, fsVars, loopVars, cur, exc, exitStatus, procNodes, ended, report>>

\* spike_test.py bake_pass for the next of the four calls: samples is set
\* from the argument when one is passed and then by the pass type, the image
\* is baked and saved as a PNG, the capture node is removed
SpikeBake ==
    /\ pc = "bake_invoke" /\ script = "spike_test"
    /\ LET p == Head(local.passes)
           name == "bake_" \o p.type
           path == local.output_dir \o <<p.file>>
           passed == IF p.samples = NotPassed THEN render.samples ELSE p.samples
           samples == CASE p.type = "DIFFUSE" -> passed
                        [] p.type \in {"NORMAL", "ROUGHNESS"} -> 1
                        [] p.type = "AO" -> 64
           m1 == nodes_new(mat, "ShaderNodeTexImage")
           m2 == [set_image(m1, mat.next, name) EXCEPT !.active = mat.next]
       IN /\ images' = [n \in DOMAIN images \cup {name} |->
                           IF n = name
                           THEN [NewImage(local.tex_size, p.colorspace)
                                   EXCEPT !.baked = p.type, !.samples = samples]
                           ELSE images[n]]
          /\ render' = [render EXCEPT !.samples = samples]
          /\ mat' = nodes_remove(m2, mat.next)
          /\ files' = [q \in DOMAIN files \cup {path} |->
                          IF q = path THEN HostJpegSize ELSE files[q]]
          /\ writes' = Append(writes, path)
          /\ local' = [local EXCEPT
                          !.baked = [t \in DOMAIN local.baked \cup {p.type} |->
                                        IF t = p.type THEN name ELSE local.baked[t]],
                          !.passes = Tail(local.passes),
                          !.written = Append(@, path)]
          /\ Say("Baked " \o p.type, cur)
          /\ pc' = IF Tail(local.passes) = <<>> THEN "replace_material" ELSE "bake_invoke"
    /\ UNCHANGED <<inputVars, loopVars, data, obj, cur, exc, exitStatus, trace, procNodes,
                   ended, report>>

\* spike_test.py from nodes.clear() to the end: the graph is rebuilt on the
\* baked images, rotation and scale are applied, the origin is moved, the
\* exporter writes the file, size and triangle count are printed.  No
\* Triangulate modifier is added anywhere in the script
SpikeExport ==
    /\ pc = "replace_material" /\ script = "spike_test"
    /\ LET base == mat.next - 1
           g1 == SetInputs(NewLinks(NewNodes(nodes_clear(mat),
                    <<"ShaderNodeOutputMaterial", "ShaderNodeBsdfPrincipled",
                      "ShaderNodeTexImage", "ShaderNodeTexImage", "ShaderNodeNormalMap",
                      "ShaderNodeTexImage", "ShaderNodeTexImage", "ShaderNodeMix">>),
                    base,
                    << <<2, "BSDF", 1, "Surface">>, <<3, "Color", 2, "Base Color">>,
                       <<4, "Color", 5, "Color">>, <<5, "Normal", 2, "Normal">>,
                       <<6, "Color", 2, "Roughness">>,
                       <<3, "Color", 8, "inputs[6]">>, <<7, "Color", 8, "inputs[7]">>,
                       <<8, "outputs[2]", 2, "Base Color">> >>),
                    base,
                    << <<2, "Roughness", 85>>, <<2, "Specular IOR Level", 30>>,
                       <<2, "Metallic", 0>>, <<5, "Strength", 100>>, <<8, "Factor", 100>> >>)
           g2 == set_image(set_image(g1, base + 3, local.baked["DIFFUSE"]),
                           base + 4, local.baked["NORMAL"])
           g3 == set_image(set_image(g2, base + 6, local.baked["ROUGHNESS"]),
                           base + 7, local.baked["AO"])
       IN /\ procNodes' = {n.id : n \in mat.nodes}
          /\ mat' = set_blend_type(g3, base + 8, "MULTIPLY")
          /\ images' = [n \in DOMAIN images |->
                          IF \E t \in {"NORMAL", "ROUGHNESS", "AO"} : local.baked[t] = n
                          THEN [images[n] EXCEPT !.colorspace = "Non-Color"]
                          ELSE images[n]]
    /\ obj' = [transform_apply(obj, FALSE, TRUE, TRUE)
                 EXCEPT !.transform.location = "(0, 0, 1.0)"]
    /\ \E size \in HostFileSizes :
          LET path == local.output_dir \o <<"spike-cube.glb">>
          IN /\ files' = [p \in DOMAIN files \cup {path} |-> IF p = path THEN size ELSE files[p]]
             /\ writes' = Append(writes, path)
             /\ local' = [local EXCEPT !.file_size = size, !.written = Append(@, path),
                                       !.meta = [file_size_kb |-> size,
                                                 tri_count |-> TriCount(obj.data.faces)]]
    /\ trace' = trace \o <<"transform_apply", "origin_set", "export_scene.gltf">>
    /\ out' = out \o << <<"Exporting GLB", cur>>, <<"GLB size", cur>>,
                        <<"Triangle count", cur>>, <<"Total time", cur>> >>
    /\ Ends("returned")
    /\ exitStatus' = 0
    /\ pc' = "exited"
    /\ UNCHANGED <<inputVars, loopVars, data, render, cur, exc, report>>

\* props/ironwood_column.py up to the bake helper: the scene is emptied,
\* add_cylinder is called for plinth, shaft and capital, the close vertices
\* are merged, the bevel is applied, the mesh is shaded smooth and
\* unwrapped, the ironwood graph is built and assigned, Cycles is chosen
ColumnBuild ==
    /\ pc = "generator" /\ script = "ironwood_column"
    /\ \E b \in HostBevel :
          LET bm == BuildMesh(bmesh_new,
                              <<Cyl(8, 0, 600), Cyl(8, 600, 9000), Cyl(8, 9600, 500)>>)
              o == NewObject("ironwood_column", "column_mesh", bm)
          IN \E merged \in 0..Min(MaxMerged, bm.verts) :
                obj' = [o EXCEPT !.data.verts = @ - merged + b.verts,
                                 !.data.faces = @ (+) b.faces,
                                 !.data.smooth = TRUE, !.data.uv = TRUE,
                                 !.data.materials = <<"IronwoodMaterial">>,
                                 !.selected = TRUE]
    /\ mat' = BuildGraph("IronwoodMaterial",
        <<"ShaderNodeOutputMaterial", "ShaderNodeBsdfPrincipled", "ShaderNodeTexCoord",
          "ShaderNodeMapping", "ShaderNodeTexWave", "ShaderNodeTexNoise",
          "ShaderNodeTexVoronoi", "ShaderNodeMix", "ShaderNodeMix",
          "ShaderNodeValToRGB", "ShaderNodeValToRGB", "ShaderNodeBump">>,
        << <<2, "BSDF", 1, "Surface">>, <<3, "Object", 4, "Vector">>,
           <<4, "Vector", 5, "Vector">>, <<4, "Vector", 6, "Vector">>,
           <<4, "Vector", 7, "Vector">>,
           <<5, "Fac", 8, "inputs[2]">>, <<6, "Fac", 8, "inputs[3]">>,
           <<8, "outputs[0]", 9, "inputs[2]">>, <<7, "Distance", 9, "inputs[3]">>,
           <<9, "outputs[0]", 10, "Fac">>, <<10, "Color", 2, "Base Color">>,
           <<8, "outputs[0]", 11, "Fac">>, <<11, "Color", 2, "Roughness">>,
           <<9, "outputs[0]", 12, "Height">>, <<12, "Normal", 2, "Normal">> >>,
        << <<2, "Roughness", 65>>, <<2, "Specular IOR Level", 35>>, <<2, "Metallic", 0>>,
           <<4, "Scale.x", 200>>, <<4, "Scale.y", 200>>, <<4, "Scale.z", 800>>,
           <<5, "Scale", 300>>, <<5, "Distortion", 400>>, <<5, "Detail", 400>>,
           <<5, "Detail Scale", 100>>,
           <<6, "Scale", 1200>>, <<6, "Detail", 600>>, <<6, "Roughness", 50>>,
           <<7, "Scale", 200>>, <<8, "Factor", 30>>, <<9, "Factor", 15>>,
           <<12, "Strength", 20>>, <<12, "Distance", 1>> >>)
    /\ data' = [objects |-> {"ironwood_column"}, materials |-> {"IronwoodMaterial"},
                meshes |-> {"column_mesh"}]
    /\ images' = EmptyFn
    /\ render' = [render EXCEPT !.engine = "CYCLES", !.device = "CPU"]
    /\ local' = [local EXCEPT
                    !.tex_size = 512,
                    !.output_dir = MODEL_OUTPUT_DIR,
                    !.passes = <<Pass("", "DIFFUSE", "sRGB", 1, "COLOR"),
                                 Pass("", "NORMAL", "Non-Color", 1, ""),
                                 Pass("", "ROUGHNESS", "Non-Color", 1, ""),
                                 Pass("", "AO", "Non-Color", 64, "")>>]
    /\ trace' = trace \o <<"clean_scene", "add_cylinder", "add_cylinder", "add_cylinder",
                           "remove_doubles", "bevel", "shade_smooth", "smart_project">>
    /\ out' = out \o << <<"Output", cur>>, <<"Baking PBR textures", cur>> >>
    /\ pc' = "bake_invoke"
    /\ UNCHANGED <<inputVars, fsVars, loopVars, cur, exc, exitStatus, procNodes, ended, report>>

\* props/ironwood_column.py bake_pass for the next of the four calls: the
\* image is baked at the samples passed and kept in bake_images, the capture
\* node is removed; nothing is saved
ColumnBake ==
    /\ pc = "bake_invoke" /\ script = "ironwood_column"
    /\ LET p == Head(local.passes)
           name == "bake_" \o Lower(p.type)
           m1 == nodes_new(mat, "ShaderNodeTexImage")
           m2 == [set_image(m1, mat.next, name) EXCEPT !.active = mat.next]
       IN /\ images' = [n \in DOMAIN images \cup {name} |->
                           IF n = name
                           THEN [NewImage(local.tex_size, p.colorspace)
                                   EXCEPT !.baked = p.type, !.samples = p.samples]
                           ELSE images[n]]
          /\ render' = [render EXCEPT !.samples = p.samples]
          /\ mat' = nodes_remove(m2, mat.next)
          /\ local' = [local EXCEPT
                          !.baked = [t \in DOMAIN local.baked \cup {p.type} |->
                                        IF t = p.type THEN name ELSE local.baked[t]],
                          !.passes = Tail(local.passes)]
          /\ Say("Baked " \o p.type, cur)
          /\ pc' = IF Tail(local.passes) = <<>> THEN "replace_material" ELSE "bake_invoke"
    /\ UNCHANGED <<inputVars, fsVars, loopVars, data, obj, cur, exc, exitStatus, trace,
                   procNodes, ended, report>>

\* props/ironwood_column.py from nodes.clear() to the end: the graph is
\* rebuilt on the baked images, the Triangulate modifier is applied, then
\* rotation and scale, the location is reset, the exporter writes the file,
\* the report and the budget warning are printed
ColumnExport ==
    /\ pc = "replace_material" /\ script = "ironwood_column"
    /\ LET base == mat.next - 1
           g1 == SetInputs(NewLinks(NewNodes(nodes_clear(mat),
                    <<"ShaderNodeOutputMaterial", "ShaderNodeBsdfPrincipled",
                      "ShaderNodeTexImage", "ShaderNodeTexImage", "ShaderNodeMix",
                      "ShaderNodeTexImage", "ShaderNodeNormalMap", "ShaderNodeTexImage">>),
                    base,
                    << <<2, "BSDF", 1, "Surface">>,
                       <<3, "Color", 5, "inputs[6]">>, <<4, "Color", 5, "inputs[7]">>,
                       <<5, "outputs[2]", 2, "Base Color">>,
                       <<6, "Color", 7, "Color">>, <<7, "Normal", 2, "Normal">>,
                       <<8, "Color", 2, "Roughness">> >>),
                    base,
                    << <<2, "Roughness", 65>>, <<2, "Metallic", 0>>,
                       <<5, "Factor", 100>>, <<7, "Strength", 100>> >>)
           g2 == set_image(set_image(g1, base + 3, local.baked["DIFFUSE"]),
                           base + 4, local.baked["AO"])
           g3 == set_image(set_image(g2, base + 6, local.baked["NORMAL"]),
                           base + 8, local.baked["ROUGHNESS"])
       IN /\ procNodes' = {n.id : n \in mat.nodes}
          /\ mat' = set_blend_type(g3, base + 5, "MULTIPLY")
          /\ images' = [n \in DOMAIN images |->
                          IF \E t \in {"AO", "NORMAL", "ROUGHNESS"} : local.baked[t] = n
                          THEN [images[n] EXCEPT !.colorspace = "Non-Color"]
                          ELSE images[n]]
    /\ obj' = [transform_apply([obj EXCEPT !.data.faces = Triangulate(@)], FALSE, TRUE, TRUE)
                 EXCEPT !.transform.location = "(0, 0, 0)"]
    /\ \E size \in HostFileSizes :
          LET path == local.output_dir \o <<"ironwood-column.glb">>
          IN /\ files' = [p \in DOMAIN files \cup {path} |-> IF p = path THEN size ELSE files[p]]
             /\ writes' = Append(writes, path)
             /\ local' = [local EXCEPT !.file_size = size, !.written = Append(@, path),
                                       !.meta = [file_size_kb |-> size,
                                                 tri_count |-> TriCount(Triangulate(obj.data.faces)),
                                                 height |-> Height(obj.data)]]
             /\ out' = out \o << <<"Exporting GLB", cur>>, <<"GLB size", cur>>,
                                 <<"Triangles", cur>>, <<"Height", cur>>, <<"Time", cur>> >>
                           \o (IF size > MAX_GLB_KB * 1024
                               THEN << <<"WARNING: GLB exceeds budget", cur>> >> ELSE <<>>)
                           \o << <<"DONE", cur>> >>
    /\ trace' = trace \o <<"triangulate", "transform_apply", "export_scene.gltf">>
    /\ Ends("returned")
    /\ exitStatus' = 0
    /\ pc' = "exited"
    /\ UNCHANGED <<inputVars, loopVars, data, render, cur, exc, report>>

\* the module body runs top to bottom; a host operator that raises ends the
\* run with a traceback
StandaloneNext ==
    \/ SpikeBuild \/ SpikeBake \/ SpikeExport
    \/ ColumnBuild \/ ColumnBake \/ ColumnExport
    \/ HostRaises

StandaloneSpec == StandaloneInit /\ [][StandaloneNext]_vars

(***************************************************************************)
(* Properties.                                                             *)
(***************************************************************************)
PropBatch == script = "prop" /\ arg = "all"
AfterLoop == pc \in {"summary", "exited"}
\* the names whose driver call ended the given way
EndedAs(how) == {ended[i][1] : i \in {j \in 1..Len(ended) : ended[j][2] = how}}

\* C1: in prop batch mode, once the loop over the registry is over, results
\* has exactly the iterated names as keys; the names whose generation raised
\* carry an 'error' key and the names whose generation returned do not.
C1_ResultsCoverRegistry ==
    (PropBatch /\ AfterLoop) =>
        /\ DOMAIN results = SeqRange(batch)
        /\ Cardinality(DOMAIN results) = Len(batch)
        /\ \A n \in EndedAs("raised") : "error" \in DOMAIN results[n]
        /\ \A n \in EndedAs("returned") : "error" \notin DOMAIN results[n]
        /\ EndedAs("raised") \cup EndedAs("returned") = SeqRange(batch)

\* a finished prop batch in which one asset failed and another succeeded
C1_Witness ==
    /\ PropBatch /\ AfterLoop
    /\ EndedAs("raised") # {}
    /\ EndedAs("returned") # {}

\* the summary of the prop batch has been printed and the script has ended
SummaryReached ==
    pc = "exited" /\ \E i \in 1..Len(out) : out[i][1] = "BATCH COMPLETE"

\* the calls made so far are the first keys of the batch, each once, and every
\* call but the running one has ended
CallsInOrder ==
    /\ Len(calls) <= Len(batch)
    /\ calls = SubSeq(batch, 1, Len(calls))
    /\ Len(ended) \in {Len(calls) - 1, Len(calls)}
    /\ \A i \in 1..Len(ended) : ended[i][1] = calls[i]
    /\ (pc = "check" => Len(ended) = Len(calls) - 1)
    /\ (AfterLoop => calls = batch /\ Len(ended) = Len(batch))

\* C2: in prop batch mode the driver is called once for every key, in the
\* order of the sorted key sequence, each call after the previous one has
\* returned or raised; a failure neither ends the loop, nor skips a key, nor
\* repeats one; and the batch summary is always reached.
C2_BatchVisitsEveryKey ==
    /\ [](PropBatch => CallsInOrder)
    /\ (PropBatch ~> SummaryReached)

\* a finished prop batch whose first asset failed and whose last one returned
C2_Witness ==
    /\ PropBatch /\ SummaryReached
    /\ Len(ended) > 1
    /\ ended[1][2] = "raised"
    /\ ended[Len(ended)][2] = "returned"

\* the stages of generate_single_prop, in the order of its body
PropStages ==
    <<"clean_scene", "generator", "add_bevel", "smooth_shade", "remove_doubles",
      "smart_uv_unwrap", "bake_pbr", "replace_material_with_baked", "triangulate",
      "transform_apply", "export_glb">>

\* the number of stages that lie before a position of generate_single_prop
StagesBefore ==
    [clean_scene |-> 0, generator |-> 1, add_bevel |-> 2, smooth_shade |-> 3,
     remove_doubles |-> 4, smart_uv_unwrap |-> 5, bake_setup |-> 6, bake_begin |-> 6,
     bake_invoke |-> 6, replace_material |-> 7, triangulate |-> 8, transform_apply |-> 9,
     export |-> 10, export_meta |-> 10, return |-> 11]

\* C3: within one call of generate_single_prop the stages that have completed
\* are the first stages of the body, each once and in the order scene reset,
\* generator, bevel, smooth shading, weld, UV unwrap, bake, rebind,
\* triangulate, transform freeze, export; a stage is running only when all
\* stages before it have completed, and at the return all eleven have.
C3_StagesInOrder ==
    script = "prop" =>
        /\ Len(trace) <= Len(PropStages)
        /\ trace = SubSeq(PropStages, 1, Len(trace))
        /\ (pc \in DOMAIN StagesBefore => Len(trace) = StagesBefore[pc])
        /\ (pc = "return" => trace = PropStages)

\* a call of generate_single_prop at its return statement
C3_Witness ==
    script = "prop" /\ pc = "return" /\ Len(trace) = 11 /\ trace[11] = "export_glb"

\* the driver was called with a name its registry does not hold
UnknownCall ==
    /\ calls # <<>>
    /\ calls[Len(calls)] = cur
    /\ cur \notin DOMAIN Registry(script)

\* C4: a driver (generate_single_prop or generate_surface) called with a name
\* that is not in its registry prints the registry and ends the process with
\* exit status 1 before any stage has run: the scene is not reset, nothing is
\* generated, baked or exported and no file is written.
C4_UnknownNameExits ==
    UnknownCall =>
        /\ pc \in {"check", "exited"}
        /\ trace = <<>>
        /\ data = NoData /\ images = EmptyFn /\ obj = NoObject /\ mat = NoMaterial
        /\ files = EmptyFn /\ writes = <<>>
        /\ (pc = "exited" =>
              /\ exitStatus = 1
              /\ out = << <<"ERROR: Unknown", cur>>, <<"Available", "">> >>)

\* the surface driver has exited on an unknown name
C4_Witness ==
    script = "surface" /\ arg = UnknownName /\ cur = UnknownName /\ pc = "exited"

\* the prop driver has exited on an unknown name
C4_WitnessProp ==
    script = "prop" /\ arg = UnknownName /\ cur = UnknownName /\ pc = "exited"

\* bake_pbr has returned to generate_single_prop
BakeReturned == script = "prop" /\ pc = "replace_material"

\* the third element of the generator's result, FALSE when it has only two
RequestsSkipAO(name) ==
    LET result == PROP_REGISTRY[name].ret
    IN Len(result) = 3 /\ result[3]

\* C5: the image set bake_pbr returns has exactly the keys DIFFUSE, NORMAL and
\* ROUGHNESS when it was called with skip_ao true and exactly DIFFUSE, NORMAL,
\* ROUGHNESS and AO when it was called with skip_ao false, skip_ao being what
\* the asset's generator asked for; every key names an image of the scene
\* that was baked with that pass.
C5_BakedChannels ==
    BakeReturned =>
        /\ local.skip_ao = RequestsSkipAO(cur)
        /\ DOMAIN local.baked =
              IF local.skip_ao THEN {"DIFFUSE", "NORMAL", "ROUGHNESS"}
              ELSE {"DIFFUSE", "NORMAL", "ROUGHNESS", "AO"}
        /\ \A t \in DOMAIN local.baked :
              /\ local.baked[t] \in DOMAIN images
              /\ images[local.baked[t]].baked = t

\* bake_pbr has returned three images for an asset that asked to skip AO
C5_Witness ==
    BakeReturned /\ local.skip_ao /\ Cardinality(DOMAIN local.baked) = 3

\* bake_pbr has returned four images for an asset that did not
C5_WitnessAO ==
    BakeReturned /\ ~local.skip_ao /\ "AO" \in DOMAIN local.baked

\* replace_material_with_baked has returned to generate_single_prop
Rebound ==
    /\ script = "prop"
    /\ pc \in {"triangulate", "transform_apply", "export", "export_meta", "return"}

NodesOfType(m, type) == {n \in m.nodes : n.type = type}
TheNode(m, type) == CHOOSE n \in m.nodes : n.type = type
ImageNode(m, image) == CHOOSE n \in NodesOfType(m, "ShaderNodeTexImage") : n.image = image
\* the links that end in one input socket, as <<source node, output socket>>
Feeders(m, node, inp) ==
    {<<l.from, l.out>> : l \in {k \in m.links : k.to = node.id /\ k.inp = inp}}

\* C6: after replace_material_with_baked the material has none of the nodes
\* it had before the call; it has one output node, one Principled BSDF, one
\* image node for each baked image, one normal-map node and, exactly when an
\* AO image was baked, one Mix node set to MULTIPLY; Base Color is fed by the
\* Mix of the albedo and AO images when AO was baked and by the albedo image
\* otherwise, the normal image feeds the normal-map node which feeds Normal,
\* and the roughness image feeds Roughness.
C6_ReboundGraph ==
    Rebound =>
        LET hasAO == "AO" \in DOMAIN local.baked
            bsdf == TheNode(mat, "ShaderNodeBsdfPrincipled")
            output == TheNode(mat, "ShaderNodeOutputMaterial")
            normal_map == TheNode(mat, "ShaderNodeNormalMap")
            ao_mix == TheNode(mat, "ShaderNodeMix")
            diff_node == ImageNode(mat, local.baked["DIFFUSE"])
            norm_node == ImageNode(mat, local.baked["NORMAL"])
            rough_node == ImageNode(mat, local.baked["ROUGHNESS"])
        IN /\ {n.id : n \in mat.nodes} \cap procNodes = {}
           /\ {n.type : n \in mat.nodes} =
                 {"ShaderNodeOutputMaterial", "ShaderNodeBsdfPrincipled",
                  "ShaderNodeTexImage", "ShaderNodeNormalMap"}
                 \cup (IF hasAO THEN {"ShaderNodeMix"} ELSE {})
           /\ Cardinality(mat.nodes) = 3 + Cardinality(DOMAIN local.baked)
                                         + (IF hasAO THEN 1 ELSE 0)
           /\ {n.image : n \in NodesOfType(mat, "ShaderNodeTexImage")} =
                 {local.baked[t] : t \in DOMAIN local.baked}
           /\ Cardinality(NodesOfType(mat, "ShaderNodeTexImage")) =
                 Cardinality(DOMAIN local.baked)
           /\ Feeders(mat, output, "Surface") = {<<bsdf.id, "BSDF">>}
           /\ IF hasAO
              THEN /\ ao_mix.blend_type = "MULTIPLY"
                   /\ Feeders(mat, bsdf, "Base Color") = {<<ao_mix.id, "outputs[2]">>}
                   /\ Feeders(mat, ao_mix, "inputs[6]") = {<<diff_node.id, "Color">>}
                   /\ Feeders(mat, ao_mix, "inputs[7]") =
                         {<<ImageNode(mat, local.baked["AO"]).id, "Color">>}
              ELSE Feeders(mat, bsdf, "Base Color") = {<<diff_node.id, "Color">>}
           /\ Feeders(mat, normal_map, "Color") = {<<norm_node.id, "Color">>}
           /\ Feeders(mat, bsdf, "Normal") = {<<normal_map.id, "Normal">>}
           /\ Feeders(mat, bsdf, "Roughness") = {<<rough_node.id, "Color">>}
           /\ Cardinality(mat.links) = IF hasAO THEN 7 ELSE 5

\* a material rebound with an AO image, whose procedural graph had nodes
C6_Witness ==
    /\ Rebound /\ pc = "triangulate"
    /\ "AO" \in DOMAIN local.baked
    /\ procNodes # {}
    /\ NodesOfType(mat, "ShaderNodeMix") # {}

\* a material rebound without an AO image
C6_WitnessNoAO ==
    /\ Rebound /\ pc = "triangulate"
    /\ "AO" \notin DOMAIN local.baked
    /\ procNodes # {}
    /\ NodesOfType(mat, "ShaderNodeMix") = {}

\* the Metallic default of a material's Principled BSDF, in hundredths
MetallicOf(m) ==
    LET bsdf == TheNode(m, "ShaderNodeBsdfPrincipled")
    IN (CHOOSE i \in m.inputs : i.node = bsdf.id /\ i.socket = "Metallic").value

\* C7: after the rebind the Metallic constant of the rebuilt material is the
\* one the asset's material factory put on the procedural material (0 for
\* stone, wood and leather, 0.9 for dark iron).
C7_MetallicKept ==
    Rebound => MetallicOf(mat) = MetallicOf(MakeMaterial(PROP_REGISTRY[cur].material))

\* a dark-iron asset after the rebind: the factory's Metallic was 0.9 and the
\* rebuilt material's is 0
C7_DarkIronLosesMetallic ==
    /\ Rebound
    /\ PROP_REGISTRY[cur].material.factory = "create_dark_iron"
    /\ MetallicOf(MakeMaterial(PROP_REGISTRY[cur].material)) = 90
    /\ MetallicOf(mat) = 0
    /\ MetallicOf(mat) \notin MATERIAL_RANGES.dark_iron

\* generate_single_prop has called export_glb
ExporterInvoked == script = "prop" /\ pc \in {"export", "export_meta", "return"}

\* the position of a completed stage in the trace of the running call
StagePos(stage) == CHOOSE i \in 1..Len(trace) : trace[i] = stage

\* C8: whenever generate_single_prop has invoked the exporter, every face of
\* the mesh has exactly 3 vertices, rotation and scale have been applied to
\* the vertex data and reset while location has not been applied, the
\* triangulation came before the transform freeze and both came after the
\* material rebind.
C8_TriangulatedAndFrozen ==
    ExporterInvoked =>
        /\ obj.data.faces # EmptyBag
        /\ DOMAIN obj.data.faces = {3}
        /\ TriCount(obj.data.faces) = obj.data.faces[3]
        /\ obj.applied = [location |-> FALSE, rotation |-> TRUE, scale |-> TRUE]
        /\ obj.transform.rotation = Identity
        /\ obj.transform.scale = Identity
        /\ StagePos("replace_material_with_baked") < StagePos("triangulate")
        /\ StagePos("triangulate") < StagePos("transform_apply")

\* the exporter is about to write a mesh that the generator built from quads
\* and n-gons
C8_Witness ==
    /\ script = "prop" /\ pc = "export"
    /\ DOMAIN BuildMesh(bmesh_new, PROP_REGISTRY[cur].placements).faces # {3}
    /\ obj.data.faces[3] > 0

\* the generator of the running call has returned
GeneratorReturned == Len(trace) >= 2 /\ trace[2] = "generator"

\* C9: from the return of a prop or surface generator to the end of the call,
\* so in particular while baking and exporting, the object's mesh has exactly
\* one material slot, holding the material the generator created.
C9_OneMaterial ==
    GeneratorReturned =>
        /\ Len(obj.data.materials) = 1
        /\ obj.data.materials[1] = mat.name
        /\ obj.data.materials[1] = Registry(script)[cur].material.name

\* a prop at export time
C9_Witness ==
    script = "prop" /\ pc = "export" /\ GeneratorReturned /\ Len(obj.data.materials) = 1

\* a surface at bake time
C9_WitnessSurface ==
    script = "surface" /\ pc = "surface_invoke" /\ GeneratorReturned
    /\ Len(obj.data.materials) = 1

\* MODEL_OUTPUT_DIR/<name>.glb, spelled out
ExpectedGlb(name) ==
    <<"public", "assets", "models", "props", "ironrath", name \o ".glb">>

\* C10: a call of generate_single_prop that returns has written exactly one
\* file, MODEL_OUTPUT_DIR/<name>.glb; different registered names have
\* different output paths; and after a prop batch in which no asset failed
\* there are as many files as assets, each written once.
C10_OneFilePerProp ==
    /\ (script = "prop" /\ pc = "return") =>
          /\ local.written = <<ExpectedGlb(cur)>>
          /\ ExpectedGlb(cur) \in DOMAIN files
    /\ pc = "main" =>
          \A a, b \in DOMAIN PROP_REGISTRY : a # b => OutputPath(a) # OutputPath(b)
    /\ (PropBatch /\ AfterLoop /\ EndedAs("raised") = {}) =>
          /\ DOMAIN files = {ExpectedGlb(n) : n \in SeqRange(batch)}
          /\ Cardinality(DOMAIN files) = Len(batch)
          /\ Len(writes) = Len(batch)
          /\ \A i, j \in 1..Len(writes) : i # j => writes[i] # writes[j]

\* a prop batch of more than one asset has ended without a failure
C10_Witness ==
    /\ PropBatch /\ AfterLoop /\ EndedAs("raised") = {}
    /\ Len(batch) > 1
    /\ Cardinality(DOMAIN files) = Len(batch)

\* the budget warning has been printed for an asset
Warned(name) ==
    \E i \in 1..Len(out) : out[i][1] = "WARNING: GLB exceeds budget" /\ out[i][2] = name

\* C11: when export_glb has returned, the file is written, no exception is
\* pending, the metadata holds the file size, the triangle count and the
\* height, and the budget warning has been printed exactly when the file is
\* larger than MAX_GLB_KB kilobytes; in batch mode an asset that was warned
\* about is recorded as a success.
C11_BudgetWarning ==
    /\ (script = "prop" /\ pc = "return") =>
          LET path == OutputPath(cur)
          IN /\ path \in DOMAIN files
             /\ Warned(cur) <=> files[path] > MAX_GLB_KB * 1024
             /\ exc = ""
             /\ ended[Len(ended)] = <<cur, "returned">>
             /\ DOMAIN local.meta = {"file_size_kb", "tri_count", "height"}
             /\ local.meta.file_size_kb = files[path]
             /\ local.meta.tri_count = TriCount(obj.data.faces)
             /\ local.meta.height = Height(obj.data)
    /\ (PropBatch /\ AfterLoop) =>
          \A n \in SeqRange(batch) :
              Warned(n) => n \in EndedAs("returned") /\ "error" \notin DOMAIN results[n]

\* a finished prop batch with one asset over the budget and one exactly at it
C11_Witness ==
    /\ PropBatch /\ AfterLoop
    /\ \E n \in SeqRange(batch) : Warned(n)
    /\ \E n \in EndedAs("returned") :
          ~Warned(n) /\ results[n].file_size_kb = MAX_GLB_KB * 1024

\* a generator is about to be called by generate_single_prop or
\* generate_surface
GeneratorInvoked == pc = "generator"

\* C12: whenever a generator is called, the scene holds no object, no
\* material, no mesh and no image, whatever the earlier assets of the batch
\* left behind.
C12_CleanSceneAtGenerator ==
    GeneratorInvoked =>
        /\ data = NoData
        /\ images = EmptyFn
        /\ obj = NoObject
        /\ mat = NoMaterial

\* the generator of a batch asset is called after the asset before it failed
\* once its first bake pass had been made
C12_Witness ==
    /\ PropBatch /\ GeneratorInvoked
    /\ ended # <<>>
    /\ ended[Len(ended)][2] = "raised"
    /\ \E i \in 1..Len(out) :
          out[i][1] = "Baked DIFFUSE" /\ out[i][2] = ended[Len(ended)][1]

\* the sum of one metadata field over the assets that returned
RECURSIVE SumReturned(_, _)
SumReturned(key, names) ==
    IF names = {} THEN 0
    ELSE LET n == CHOOSE x \in names : TRUE
         IN results[n][key] + SumReturned(key, names \ {n})

\* the prop batch has printed its summary
SummaryPrinted == PropBatch /\ pc = "exited"

\* C13: the totals the prop batch reports are the sums of tri_count and
\* file_size_kb over the assets whose generation returned, a failed asset
\* adding nothing to either, and the reported error list holds exactly the
\* names whose generation raised, each once.
C13_TotalsOverSuccesses ==
    SummaryPrinted =>
        /\ report.total_tris = SumReturned("tri_count", EndedAs("returned"))
        /\ report.total_kb = SumReturned("file_size_kb", EndedAs("returned"))
        /\ \A n \in EndedAs("raised") :
              "tri_count" \notin DOMAIN results[n] /\ "file_size_kb" \notin DOMAIN results[n]
        /\ SeqRange(report.errors) = EndedAs("raised")
        /\ Len(report.errors) = Cardinality(EndedAs("raised"))
        /\ (\E i \in 1..Len(out) : out[i][1] = "ERRORS") <=> EndedAs("raised") # {}

\* a summary over one asset that returned with triangles and one that failed
\* after its mesh had been built
C13_Witness ==
    /\ SummaryPrinted
    /\ Len(report.errors) = 1
    /\ report.total_tris > 0
    /\ report.total_kb > 0
    /\ \E i \in 1..Len(out) : out[i][1] = "Baked DIFFUSE" /\ out[i][2] = report.errors[1]

SurfaceBatch == script = "surface" /\ arg = "all"

\* the failure of a set was printed by the batch loop
FailureLogged(name) ==
    \E i \in 1..Len(out) : out[i][1] = "FAILED" /\ out[i][2] = name

\* C14: in surface batch mode a set whose generation raised is caught at the
\* set boundary and logged, the loop goes on to the remaining sets, and once
\* the loop is over the failed set is recorded in the results summary.
C14_SurfaceFailureRecorded ==
    SurfaceBatch =>
        /\ pc # "crashed"
        /\ CallsInOrder
        /\ AfterLoop =>
              \A n \in EndedAs("raised") :
                  /\ FailureLogged(n)
                  /\ n \in DOMAIN results
                  /\ "error" \in DOMAIN results[n]

\* what the surface batch does do: every failure is caught and logged, every
\* set is attempted, and the closing line is printed whatever failed
SurfaceBatchLogsAndContinues ==
    SurfaceBatch =>
        /\ pc # "crashed"
        /\ CallsInOrder
        /\ AfterLoop =>
              /\ \A n \in EndedAs("raised") : FailureLogged(n)
              /\ results = EmptyFn
              /\ (pc = "exited" =>
                    \E i \in 1..Len(out) : out[i][1] = "All surface textures generated")

\* a surface batch that ended after its first set failed
SurfaceBatchWithFailure ==
    /\ SurfaceBatch /\ pc = "exited"
    /\ ended[1][2] = "raised"
    /\ ended[Len(ended)][2] = "returned"


BakedTags == {"Baked DIFFUSE", "Baked NORMAL", "Baked ROUGHNESS", "Baked AO"}
\* the bake passes that have completed for an asset, in the order they ran
PassesRun(name) ==
    LET done == SelectSeq(out, LAMBDA e : e[2] = name /\ e[1] \in BakedTags)
    IN [i \in 1..Len(done) |-> done[i][1]]

IsPrefix(s, t) == Len(s) <= Len(t) /\ \A i \in 1..Len(s) : s[i] = t[i]

FloorCrackRun == script = "prop" /\ cur = "floor-crack"

\* C15: while 'floor-crack' is generated the bake passes that have run are
\* always an initial part of DIFFUSE, NORMAL, ROUGHNESS (so no AO pass ever
\* runs) and are exactly those three once bake_pbr has returned; the rebind
\* is not failed by the absent AO image (only the host can fail it), and the
\* material it leaves has exactly three image nodes, one for each baked
\* image, no Mix node, and its Base Color fed by the Color output of the
\* albedo image node alone.
C15_FloorCrackThreeChannels ==
    FloorCrackRun =>
        /\ IsPrefix(PassesRun(cur), <<"Baked DIFFUSE", "Baked NORMAL", "Baked ROUGHNESS">>)
        /\ (BakeReturned \/ Rebound) =>
              /\ Len(PassesRun(cur)) = 3
              /\ DOMAIN local.baked = {"DIFFUSE", "NORMAL", "ROUGHNESS"}
        /\ pc = "raised" => exc = HostError
        /\ Rebound =>
              LET imageNodes == NodesOfType(mat, "ShaderNodeTexImage")
                  bsdf == TheNode(mat, "ShaderNodeBsdfPrincipled")
                  diff_node == ImageNode(mat, local.baked["DIFFUSE"])
              IN /\ Cardinality(imageNodes) = 3
                 /\ {n.image : n \in imageNodes} = {local.baked[t] : t \in DOMAIN local.baked}
                 /\ \A n \in imageNodes : n.image \in DOMAIN images
                 /\ NodesOfType(mat, "ShaderNodeMix") = {}
                 /\ Feeders(mat, bsdf, "Base Color") = {<<diff_node.id, "Color">>}

\* the floor crack has been baked and its material rebound
C15_Witness ==
    /\ FloorCrackRun /\ pc = "triangulate"
    /\ PassesRun(cur) = <<"Baked DIFFUSE", "Baked NORMAL", "Baked ROUGHNESS">>
    /\ Cardinality(NodesOfType(mat, "ShaderNodeTexImage")) = 3


StoolRun == script = "prop" /\ cur = "stool"

\* the angular position, in degrees, of a centre given in BoxAt's units
AngleOf(p) ==
    CASE p.y = 0 /\ p.x > 0 -> 0
      [] p.x < 0 /\ p.y = -p.x -> 120
      [] p.x < 0 /\ p.y = p.x -> 240
      [] OTHER -> -1

\* the centre lies on the circle of radius r millimetres about the axis
OnCircle(p, r) == p.x * p.x + 3 * p.y * p.y = 4 * r * r

\* C16: once the generator of 'stool' has returned, the placements that built
\* the mesh are one cylinder section, of 8 segments at z offset 0.45 m, and
\* three boxes whose centres lie on one circle about the axis at 0, 120 and
\* 240 degrees, and the texture size the generator returned is 256.
C16_StoolShape ==
    (StoolRun /\ GeneratorReturned) =>
        LET placed == obj.data.placed
            seats == SelectSeq(placed, LAMBDA p : p.kind = "cylinder")
            legs == SelectSeq(placed, LAMBDA p : p.kind = "box")
        IN /\ Len(placed) = 4
           /\ Len(seats) = 1
           /\ seats[1].segments = 8 /\ seats[1].z = 450
           /\ Len(legs) = 3
           /\ \E r \in 1..1000 : \A i \in 1..3 : OnCircle(legs[i], r)
           /\ [i \in 1..3 |-> AngleOf(legs[i])] = <<0, 120, 240>>
           /\ local.tex_size = 256
           /\ TEX_PROP_SMALL = 256

\* the stool's mesh has been built: 16 + 3 * 8 vertices
C16_Witness ==
    /\ StoolRun /\ pc = "add_bevel"
    /\ Len(obj.data.placed) = 4
    /\ obj.data.verts = 40


\* the vertices and the faces a sequence of placements adds up to
RECURSIVE PlacedVerts(_)
PlacedVerts(placed) ==
    IF placed = <<>> THEN 0
    ELSE LET p == Head(placed)
         IN (CASE p.kind = "box" -> 8
               [] p.kind = "cylinder" -> 2 * p.segments
               [] p.kind = "half_cylinder" -> 2 * (p.segments + 1))
            + PlacedVerts(Tail(placed))

RECURSIVE PlacedFaces(_)
PlacedFaces(placed) ==
    IF placed = <<>> THEN EmptyBag
    ELSE LET p == Head(placed)
         IN (CASE p.kind = "box" -> (4 :> 6)
               [] p.kind = "cylinder" -> (4 :> p.segments) (+) (p.segments :> 2)
               [] p.kind = "half_cylinder" -> (4 :> p.segments) (+) ((p.segments + 1) :> 2))
            (+) PlacedFaces(Tail(placed))

PropGeneratorReturned == script = "prop" /\ pc = "add_bevel"

\* C17: whenever a prop generator has just returned, whether the asset is the
\* only one of the run, the first of a batch or follows assets that returned
\* or failed, the placements it made are the asset's fixed sequence, and the
\* mesh has the vertex count and the faces, arity by arity, that this
\* sequence adds up to from an empty mesh.
C17_SameMeshEveryRun ==
    PropGeneratorReturned =>
        /\ obj.data.placed = PROP_REGISTRY[cur].placements
        /\ obj.data.verts = PlacedVerts(obj.data.placed)
        /\ obj.data.faces = PlacedFaces(obj.data.placed)

\* a generator has returned in a batch after an earlier asset was baked and
\* then failed
C17_Witness ==
    /\ PropBatch /\ PropGeneratorReturned
    /\ ended # <<>>
    /\ ended[Len(ended)][2] = "raised"
    /\ \E i \in 1..Len(out) : out[i][1] = "Baked DIFFUSE"
    /\ obj.data.verts > 0

\* a generator has returned in a run of one asset
C17_WitnessSingle ==
    /\ script = "prop" /\ arg # "all" /\ PropGeneratorReturned
    /\ ended = <<>>
    /\ obj.data.verts > 0


SinglePropRun == script = "prop" /\ arg \in DOMAIN PROP_REGISTRY

\* C18: in a run of one prop, the step in which a stage raises leaves the
\* scene and the completed stages as they were and removes no file; the
\* exception then ends the run with the scene, the files, the completed
\* stages and the printed lines unchanged, and nothing runs after that; in
\* the failed run the completed stages are a proper initial part of the
\* eleven stages, no result is stored, no Done line is printed and no exit
\* status is set by the script.
C18_SingleFailureIsFatal ==
    /\ [](SinglePropRun /\ pc \in {"raised", "crashed"} =>
            /\ IsPrefix(trace, PropStages)
            /\ Len(trace) < Len(PropStages)
            /\ results = EmptyFn
            /\ \A i \in 1..Len(out) : out[i][1] # "Done"
            /\ exitStatus = -1)
    /\ [][SinglePropRun =>
            /\ (pc # "raised" /\ pc' = "raised") =>
                  /\ UNCHANGED <<sceneVars, trace, out>>
                  /\ \A f \in DOMAIN files : f \in DOMAIN files' /\ files'[f] = files[f]
            /\ pc = "raised" =>
                  /\ pc' = "crashed"
                  /\ UNCHANGED <<sceneVars, fsVars, trace, out, results, exitStatus>>
            /\ pc # "crashed"]_vars

\* a run of one prop has ended on an exporter failure, with the baked images
\* in the scene and the partly written file on disk
C18_Witness ==
    /\ SinglePropRun /\ pc = "crashed"
    /\ OutputPath(cur) \in DOMAIN files
    /\ images # EmptyFn
    /\ data.objects # {}


NoMaterialAssigned == Len(obj.data.materials) = 0

\* C19: when bake_pbr is called on an object with no material, the call is
\* either about to fetch the material or has raised IndexError; no image has
\* been allocated, no node has been added to any material, no bake has been
\* invoked or completed, and no image, not even a partial set, is returned.
C19_NoMaterialIsFatal ==
    NoMaterialAssigned =>
        /\ pc \in {"bake_setup", "raised"}
        /\ pc = "raised" => exc = "IndexError" /\ ended = << <<cur, "raised">> >>
        /\ images = EmptyFn
        /\ mat = NoMaterial
        /\ local.baked = EmptyFn /\ local.passes = <<>> /\ local.img = NoImage
        /\ PassesRun(cur) = <<>>
        /\ trace = <<>>

\* bake_pbr has raised on an object without material, after the renderer was
\* set up
C19_Witness ==
    /\ NoMaterialAssigned /\ pc = "raised" /\ exc = "IndexError"
    /\ render.engine = "CYCLES"
    /\ obj.data.verts > 0


\* the directory of each surface set, spelled out
ExpectedSurfaceDir ==
    "floor-stone" :> <<"public", "assets", "textures", "stone", "northern-floor">>
    @@ "wall-stone" :> <<"public", "assets", "textures", "stone", "northern-wall">>
    @@ "ceiling-wood" :> <<"public", "assets", "textures", "wood", "ironwood-ceiling">>

ExpectedJpegs(name) ==
    [i \in 1..4 |->
        ExpectedSurfaceDir[name] \o << <<"diffuse.jpg", "normal.jpg", "roughness.jpg", "ao.jpg">>[i] >>]

SurfaceRun == script = "surface" /\ cur \in DOMAIN SURFACE_REGISTRY

\* the files on disk that lie in a directory
FilesIn(dir) == {f \in DOMAIN files : Len(f) = Len(dir) + 1 /\ IsPrefix(dir, f)}

\* C20: while generate_surface runs for a registered set, every image in the
\* scene is 1024 pixels wide and is the one being baked; the files written so
\* far are the first of diffuse.jpg, normal.jpg, roughness.jpg, ao.jpg, in
\* that order, in the set's directory, and that directory holds no other
\* file; after each save the scene holds no image; when generate_surface
\* returns, all four files have been written, the last one baked as AO with
\* the AO sample count; the directories of the three sets are pairwise
\* distinct.
C20_SurfaceSetFiles ==
    /\ DOMAIN SURFACE_REGISTRY = DOMAIN ExpectedSurfaceDir
    /\ \A a, b \in DOMAIN SURFACE_REGISTRY :
          /\ SURFACE_REGISTRY[a].ret[2] = ExpectedSurfaceDir[a]
          /\ a # b => ExpectedSurfaceDir[a] # ExpectedSurfaceDir[b]
    /\ (SurfaceRun /\ GeneratorReturned) =>
          /\ local.tex_size = 1024
          /\ local.output_dir = ExpectedSurfaceDir[cur]
          /\ IsPrefix(local.written, ExpectedJpegs(cur))
          /\ FilesIn(ExpectedSurfaceDir[cur]) = {local.written[i] : i \in 1..Len(local.written)}
          /\ \A n \in DOMAIN images : n = local.img /\ images[n].size = 1024
          /\ pc \in {"surface_begin", "return"} => images = EmptyFn
          /\ pc = "surface_save" =>
                /\ images[local.img].baked =
                      <<"DIFFUSE", "NORMAL", "ROUGHNESS", "AO">>[Len(local.written) + 1]
                /\ images[local.img].samples =
                      IF images[local.img].baked = "AO" THEN BAKE_SAMPLES_AO
                      ELSE BAKE_SAMPLES_FAST
          /\ pc = "return" =>
                /\ local.written = ExpectedJpegs(cur)
                /\ Cardinality(FilesIn(ExpectedSurfaceDir[cur])) = 4

\* generate_surface has returned for the second set of a batch, eight files
\* on disk
C20_Witness ==
    /\ SurfaceBatch /\ SurfaceRun /\ pc = "return"
    /\ Len(local.written) = 4
    /\ Cardinality(DOMAIN files) = 8
    /\ images = EmptyFn


\* bake_pbr is between its setup and its return to generate_single_prop
InBakeLoop == script = "prop" /\ pc \in {"bake_begin", "bake_invoke", "replace_material"}

\* the nodes the generator's factory put in the material
FactoryNodes == MakeMaterial(PROP_REGISTRY[cur].material).nodes

\* C21: inside bake_pbr the material has its factory nodes and at most one
\* more node; when a bake is about to be invoked that one node is there, is
\* an image node holding the image of the channel, not yet baked, and is the
\* active node; between channels and when bake_pbr has returned the nodes are
\* exactly the factory nodes again.
C21_CaptureNodeFramed ==
    InBakeLoop =>
        LET built == MakeMaterial(PROP_REGISTRY[cur].material)
            extra == mat.nodes \ built.nodes
        IN /\ built.nodes \subseteq mat.nodes
           /\ Cardinality(extra) <= 1
           /\ pc = "bake_invoke" =>
                 /\ \E n \in extra :
                       /\ n.id = local.img_node
                       /\ n.type = "ShaderNodeTexImage"
                       /\ n.image = local.img
                 /\ mat.active = local.img_node
                 /\ local.img \in DOMAIN images
                 /\ images[local.img].baked = ""
           /\ pc \in {"bake_begin", "replace_material"} =>
                 /\ extra = {}
                 /\ mat.links = built.links

\* bake_pbr has returned after four channels, the factory nodes in place
C21_Witness ==
    /\ BakeReturned
    /\ Cardinality(DOMAIN local.baked) = 4
    /\ mat.nodes = FactoryNodes
    /\ mat.next > Cardinality(FactoryNodes) + 4

\* the capture node of the third channel is in the graph
C21_WitnessCapture ==
    /\ InBakeLoop /\ pc = "bake_invoke"
    /\ Cardinality(DOMAIN local.baked) = 2
    /\ Cardinality(mat.nodes \ FactoryNodes) = 1


\* the sample count and the colour space the claim gives for each channel
ChannelSettings ==
    [DIFFUSE |-> [samples |-> 1, colorspace |-> "sRGB"],
     NORMAL |-> [samples |-> 1, colorspace |-> "Non-Color"],
     ROUGHNESS |-> [samples |-> 1, colorspace |-> "Non-Color"],
     AO |-> [samples |-> 64, colorspace |-> "Non-Color"]]

\* the channel whose image is named "bake_<channel in lower case>"
ChannelOfImage ==
    [bake_diffuse |-> "DIFFUSE", bake_normal |-> "NORMAL",
     bake_roughness |-> "ROUGHNESS", bake_ao |-> "AO"]

BakeInvoked == script = "prop" /\ pc = "bake_invoke"

\* C22: when bake_pbr is about to invoke the bake of a channel, the
\* renderer's sample count and the colour space of the image that will
\* receive the bake are those of the channel (1 and sRGB for DIFFUSE, 1 and
\* Non-Color for NORMAL and ROUGHNESS, 64 and Non-Color for AO); every image
\* that has been baked inside bake_pbr was baked as the channel it is named
\* after, with that channel's sample count.
C22_ChannelSettings ==
    /\ BakeInvoked =>
          LET channel == Head(local.passes).type
          IN /\ ChannelOfImage[local.img] = channel
             /\ render.samples = ChannelSettings[channel].samples
             /\ images[local.img].colorspace = ChannelSettings[channel].colorspace
             /\ images[local.img].size = local.tex_size
    /\ InBakeLoop =>
          \A n \in DOMAIN images :
              images[n].baked # "" =>
                  /\ images[n].baked = ChannelOfImage[n]
                  /\ images[n].samples = ChannelSettings[images[n].baked].samples

\* the occlusion bake of the second asset of a batch is about to be invoked,
\* after three channels baked with one sample
C22_Witness ==
    /\ PropBatch /\ BakeInvoked
    /\ ended # <<>>
    /\ Head(local.passes).type = "AO"
    /\ render.samples = 64
    /\ Cardinality(DOMAIN local.baked) = 3

\* the albedo bake of an asset that follows one baked with occlusion
C22_WitnessAfterAO ==
    /\ PropBatch /\ BakeInvoked
    /\ Head(local.passes).type = "DIFFUSE"
    /\ render.samples = 1
    /\ \E i \in 1..Len(out) : out[i][1] = "Baked AO"


\* the material is as a family factory built it: the generator has returned
\* and the bake has not begun
FactoryBuilt ==
    /\ pc \in {"add_bevel", "smooth_shade", "remove_doubles", "smart_uv_unwrap",
               "bake_setup", "surface_setup"}
    /\ Registry(script)[cur].material.factory # "inline"

FactoryOf == Registry(script)[cur].material.factory

\* the pattern generators of a graph
Generators(m) ==
    {n \in m.nodes : n.type \in {"ShaderNodeTexNoise", "ShaderNodeTexVoronoi",
                                 "ShaderNodeTexWave"}}

\* some output of node a is linked to some input of node b
Linked(m, a, b) == \E l \in m.links : l.from = a.id /\ l.to = b.id

\* the blend, gradient lookup, surface colour chain
ColourChain(m) ==
    \E mix \in NodesOfType(m, "ShaderNodeMix"), ramp \in NodesOfType(m, "ShaderNodeValToRGB") :
        /\ \E g \in Generators(m) : Linked(m, g, mix)
        /\ Linked(m, mix, ramp)
        /\ <<ramp.id, "Color">> \in
              Feeders(m, TheNode(m, "ShaderNodeBsdfPrincipled"), "Base Color")

\* what the four families share
CommonSkeleton(m) ==
    /\ \A t \in {"ShaderNodeTexCoord", "ShaderNodeMapping", "ShaderNodeBsdfPrincipled",
                 "ShaderNodeOutputMaterial", "ShaderNodeBump"} :
          Cardinality(NodesOfType(m, t)) = 1
    /\ Feeders(m, TheNode(m, "ShaderNodeMapping"), "Vector") =
          {<<TheNode(m, "ShaderNodeTexCoord").id, "Object">>}
    /\ Cardinality(Generators(m)) \in 1..3
    /\ \A g \in Generators(m) :
          Feeders(m, g, "Vector") = {<<TheNode(m, "ShaderNodeMapping").id, "Vector">>}
    /\ Feeders(m, TheNode(m, "ShaderNodeBsdfPrincipled"), "Normal") =
          {<<TheNode(m, "ShaderNodeBump").id, "Normal">>}
    /\ Feeders(m, TheNode(m, "ShaderNodeOutputMaterial"), "Surface") =
          {<<TheNode(m, "ShaderNodeBsdfPrincipled").id, "BSDF">>}

\* C23 as claimed: the graph of every family factory has the common part,
\* one or two pattern generators, and the chain generator, blend, gradient
\* lookup, surface colour.
C23_SameSkeleton ==
    FactoryBuilt =>
        /\ CommonSkeleton(mat)
        /\ Cardinality(Generators(mat)) \in {1, 2}
        /\ ColourChain(mat)

\* C23: the graph of every family factory has one coordinate source feeding
\* one scale transform through its Object output, one to three pattern
\* generators each fed by the transform alone, one bump node feeding the
\* surface normal, and the surface node feeding the output; stone (two
\* generators) and wood (three) blend their generators and pass the blend
\* through a gradient lookup into the surface colour; metal (two generators)
\* has a blend that feeds the roughness and no gradient lookup; leather (one
\* generator) has neither blend nor gradient lookup; in metal and leather
\* nothing is linked to the surface colour.
C23_FamilySkeletons ==
    FactoryBuilt =>
        LET bsdf == TheNode(mat, "ShaderNodeBsdfPrincipled")
            ramps == NodesOfType(mat, "ShaderNodeValToRGB")
            mixes == NodesOfType(mat, "ShaderNodeMix")
        IN /\ CommonSkeleton(mat)
           /\ FactoryOf = "create_northern_stone" =>
                 /\ Cardinality(Generators(mat)) = 2
                 /\ ColourChain(mat)
           /\ FactoryOf = "create_ironwood" =>
                 /\ Cardinality(Generators(mat)) = 3
                 /\ ColourChain(mat)
           /\ FactoryOf = "create_dark_iron" =>
                 /\ Cardinality(Generators(mat)) = 2
                 /\ ramps = {}
                 /\ Cardinality(mixes) = 1
                 /\ Feeders(mat, bsdf, "Roughness") = {<<TheNode(mat, "ShaderNodeMix").id, "outputs[0]">>}
                 /\ Feeders(mat, bsdf, "Base Color") = {}
           /\ FactoryOf = "create_leather" =>
                 /\ Cardinality(Generators(mat)) = 1
                 /\ ramps = {} /\ mixes = {}
                 /\ Feeders(mat, bsdf, "Base Color") = {}

\* a leather material has been built
C23_Witness ==
    /\ FactoryBuilt /\ FactoryOf = "create_leather"
    /\ Cardinality(mat.nodes) = 6

\* a dark iron material has been built
C23_WitnessMetal ==
    /\ FactoryBuilt /\ FactoryOf = "create_dark_iron"
    /\ NodesOfType(mat, "ShaderNodeMix") # {}


\* the placement made by the last call on the mesh
LastPlaced(d) == d.placed[Len(d.placed)]

\* C24: every call of create_box adds exactly 8 vertices and 6 four-vertex
\* faces, every call of create_cylinder_section with n segments adds exactly
\* 2n vertices, n four-vertex faces and 2 n-vertex faces, and nothing else
\* changes the counts; so after any sequence of calls, equal calls included,
\* the vertex count and the faces of each arity are the sums over the calls.
C24_PlacementsOnlyAdd ==
    /\ [](pc = "mesh" =>
            /\ obj.data.verts = PlacedVerts(obj.data.placed)
            /\ obj.data.faces = PlacedFaces(obj.data.placed))
    /\ [][pc = "mesh" =>
            LET p == LastPlaced(obj'.data)
            IN /\ Len(obj'.data.placed) = Len(obj.data.placed) + 1
               /\ p.kind = "box" =>
                     /\ obj'.data.verts = obj.data.verts + 8
                     /\ obj'.data.faces = obj.data.faces (+) (4 :> 6)
               /\ p.kind = "cylinder" =>
                     /\ obj'.data.verts = obj.data.verts + 2 * p.segments
                     /\ obj'.data.faces =
                           obj.data.faces (+) (4 :> p.segments) (+) (p.segments :> 2)]_vars

\* the same box has been placed twice and a cylinder section on top of them
C24_Witness ==
    /\ pc = "mesh"
    /\ Len(obj.data.placed) = 3
    /\ obj.data.placed[1] = Box(0, 100)
    /\ obj.data.placed[2] = Box(0, 100)
    /\ obj.data.placed[3].kind = "cylinder"
    /\ obj.data.verts = 32


ChandelierBuilt == script = "prop" /\ cur = "iron-chandelier" /\ GeneratorReturned

\* the create_cylinder_section calls of the mesh, in order
CupsPlaced == SelectSeq(obj.data.placed, LAMBDA p : p.kind = "cylinder")

\* C25: once the generator of 'iron-chandelier' has returned, the mesh holds
\* six candle cup placements and any two of them differ.
C25_CupsDistinct ==
    ChandelierBuilt =>
        /\ Len(CupsPlaced) = 6
        /\ \A i, j \in 1..Len(CupsPlaced) : i # j => CupsPlaced[i] # CupsPlaced[j]

\* what the generator does: the six cup placements are one and the same call,
\* six segments at z offset 0.08 about the axis of the mesh
CupsCoincide ==
    ChandelierBuilt =>
        /\ Len(CupsPlaced) = 6
        /\ \A i \in 1..6 : CupsPlaced[i] = Cyl(6, 80, 60)
        /\ obj.data.placed = PROP_REGISTRY["iron-chandelier"].placements

ChandelierGenerated == ChandelierBuilt /\ pc = "add_bevel" /\ obj.data.verts = 16 * 8 + 6 * 12 + 3 * 8


\* the lines generate_single_prop and the functions it calls print, and the
\* line the batch loop prints for an asset that raised
PropLines ==
    {"Generating", "Baking", "Baked DIFFUSE", "Baked NORMAL", "Baked ROUGHNESS", "Baked AO",
     "WARNING: GLB exceeds budget", "Done", "FAILED"}

PropRun == script = "prop" /\ cur \in DOMAIN PROP_REGISTRY

\* C26: whatever the triangle count of the mesh, below or above the triangle
\* budgets, a call of generate_single_prop prints only its progress lines and
\* the file-size warning (the batch loop adds its FAILED line when the call
\* raised), fails only when a host operation raises, and when
\* it returns the file is written, the metadata has the keys file_size_kb,
\* tri_count and height with the count of the exported mesh, and the only
\* warning, the file-size one, depends on the file size alone.
C26_NoTriangleBudgetCheck ==
    PropRun =>
        /\ \A i \in 1..Len(out) : out[i][2] = cur => out[i][1] \in PropLines
        /\ pc \in {"raised", "crashed"} => exc = HostError
        /\ (\E i \in 1..Len(out) : out[i] = <<"FAILED", cur>>) => <<cur, "raised">> = ended[Len(ended)]
        /\ pc = "return" =>
              /\ OutputPath(cur) \in DOMAIN files
              /\ DOMAIN local.meta = {"file_size_kb", "tri_count", "height"}
              /\ local.meta.tri_count = TriCount(obj.data.faces)
              /\ Warned(cur) <=> files[OutputPath(cur)] > MAX_GLB_KB * 1024

\* an asset over the small triangle budget has been exported without any
\* warning
C26_Witness ==
    /\ PropRun /\ pc = "return"
    /\ local.meta.tri_count > BUDGET_SMALL
    /\ ~Warned(cur)

\* an asset under every triangle budget has been exported with the file-size
\* warning
C26_WitnessUnder ==
    /\ PropRun /\ pc = "return"
    /\ local.meta.tri_count < BUDGET_SMALL
    /\ Warned(cur)

(***************************************************************************)
(* C27: each standalone script that exports a model without the driver     *)
(* (props/ironwood_column.py and spike_test.py) applies triangulation and  *)
(* the rotation/scale freeze before its exporter call, so the mesh it      *)
(* exports has only 3-vertex faces and no residual rotation or scale.      *)
(***************************************************************************)
StandaloneExported ==
    /\ script \in {"spike_test", "ironwood_column"}
    /\ pc = "exited"
    /\ trace # <<>> /\ trace[Len(trace)] = "export_scene.gltf"

Frozen(o) ==
    /\ o.applied.rotation /\ o.applied.scale
    /\ o.transform.rotation = Identity /\ o.transform.scale = Identity

C27_StandaloneTriangulated ==
    StandaloneExported =>
        /\ DOMAIN obj.data.faces = {3}
        /\ Frozen(obj)
        /\ \E i, j \in 1..Len(trace) :
              i < j /\ trace[i] = "triangulate" /\ trace[j] = "transform_apply"

\* what the two scripts do: both freeze rotation and scale, the column is
\* triangulated, the cube of spike_test.py is exported with its quads
C27_ColumnOnlyTriangulated ==
    StandaloneExported =>
        /\ Frozen(obj)
        /\ script = "ironwood_column" => DOMAIN obj.data.faces = {3}
        /\ script = "spike_test" =>
              /\ 4 \in DOMAIN obj.data.faces
              /\ \A i \in 1..Len(trace) : trace[i] # "triangulate"

C27_SpikeExported == StandaloneExported /\ script = "spike_test"
C27_ColumnExported == StandaloneExported /\ script = "ironwood_column"

(***************************************************************************)
(* C28: the seed parameter of the material factories has no effect on the  *)
(* graph they build: with the other arguments equal, any two seeds give    *)
(* graphs with the same nodes, links and parameter values, so surface sets *)
(* that differ in seed differ only through their scale and grain arguments.*)
(***************************************************************************)
Seeds == {NotPassed, 0, 7, 13, 42}

\* the generator's factory call has just returned
FactoryReturned ==
    /\ pc \in {"add_bevel", "surface_setup"}
    /\ Registry(script)[cur].material.factory # "inline"

C28_WitnessProp ==
    /\ FactoryReturned /\ script = "prop"
    /\ Registry(script)[cur].material.seed = NotPassed

(***************************************************************************)
(* C29: the skip-occlusion flag handed to bake_pbr is the third element of *)
(* the generator's result when it returns three elements and false when it *)
(* returns two; the occlusion pass is skipped for exactly floor-crack,     *)
(* wall-moss, hearth-scorch, table-stain and worn-path and runs for every  *)
(* other registered name.                                                  *)
(***************************************************************************)
SkippedNames == {"floor-crack", "wall-moss", "hearth-scorch", "table-stain", "worn-path"}

\* generate_single_prop holds the generator's result
ResultUnpacked ==
    /\ script = "prop"
    /\ pc \in {"add_bevel", "smooth_shade", "remove_doubles", "smart_uv_unwrap",
               "bake_setup", "bake_begin", "bake_invoke", "replace_material"}

C29_SkipAOFromResult ==
    /\ pc = "add_bevel" =>
          {n \in DOMAIN PROP_REGISTRY : Len(PROP_REGISTRY[n].ret) = 3 /\ PROP_REGISTRY[n].ret[3]}
             = SkippedNames
    /\ ResultUnpacked =>
          LET result == PROP_REGISTRY[cur].ret
          IN /\ Len(result) \in {2, 3}
             /\ Len(result) = 3 => local.skip_ao = result[3]
             /\ Len(result) = 2 => local.skip_ao = FALSE
             /\ local.skip_ao <=> cur \in SkippedNames
             /\ pc = "bake_begin" =>
                   \A i \in 1..Len(local.passes) :
                      local.passes[i].type = "AO" => cur \notin SkippedNames
             /\ pc = "replace_material" =>
                   /\ "AO" \in DOMAIN local.baked <=> cur \notin SkippedNames
                   /\ (\E i \in 1..Len(out) : out[i] = <<"Baked AO", cur>>)
                         <=> cur \notin SkippedNames

\* bake_pbr has returned without the occlusion image for a flagged name
C29_Witness ==
    /\ script = "prop" /\ pc = "replace_material" /\ cur = "wall-moss"
    /\ DOMAIN local.baked = {"DIFFUSE", "NORMAL", "ROUGHNESS"}

\* bake_pbr has returned with the occlusion image for a two-element result
C29_WitnessRuns ==
    /\ script = "prop" /\ pc = "replace_material" /\ cur = "fur-rug"
    /\ Len(PROP_REGISTRY[cur].ret) = 2
    /\ "AO" \in DOMAIN local.baked

(***************************************************************************)
(* C30: a batch run ('all') of either driver never terminates with a       *)
(* failure exit status because of asset failures: whatever assets raised,  *)
(* the script reaches its end without calling exit with a non-zero status, *)
(* so the exit status of a batch with failed assets is that of a batch     *)
(* with none.                                                              *)
(***************************************************************************)
BatchRun == arg = "all"
SomeAssetRaised == \E i \in 1..Len(ended) : ended[i][2] = "raised"

C30_BatchExitStatus ==
    BatchRun =>
        /\ pc # "crashed"
        /\ exitStatus \in {-1, 0}
        /\ exitStatus = 0 <=> pc = "exited"
        /\ pc = "exited" =>
              /\ Len(ended) = Len(batch)
              /\ \A i \in 1..Len(batch) : ended[i][1] = batch[i]

\* a finished prop batch in which an asset raised
C30_Witness ==
    /\ BatchRun /\ script = "prop" /\ pc = "exited"
    /\ SomeAssetRaised /\ exitStatus = 0

\* a finished surface batch in which an asset raised
C30_WitnessSurface ==
    /\ BatchRun /\ script = "surface" /\ pc = "exited"
    /\ SomeAssetRaised /\ exitStatus = 0

\* a finished batch in which no asset raised
C30_WitnessClean ==
    /\ BatchRun /\ pc = "exited" /\ batch # <<>>
    /\ ~SomeAssetRaised /\ exitStatus = 0

===========================================================================
